---- MODULE Spec2Model ----
(***************************************************************************)
(* A model of scripts/seed-db.py, the synthetic ledger generator: main and *)
(* its phases (clear, accounts, tags, rules, expenses, trading activities, *)
(* summary), the SQLite store they write, and the generators for salary,   *)
(* expenses and trading activities.                                        *)
(*                                                                         *)
(* Randomness: every call of the random module is a nondeterministic       *)
(* choice.  The variable rng names the behaviour of the source during a    *)
(* run: "low" (random.random() always returns 0.0, so every draw is its    *)
(* lowest value), "high" (every draw is its highest value) or "spread"     *)
(* (each draw independently takes any of its sampled values).              *)
(* faults is the set of tables whose bulk insert the store fails in a run. *)
(***************************************************************************)
EXTENDS Integers, Sequences, FiniteSets, TLC

VARIABLES pc, rng, faults, today, args, disk, db, conn, status, out, exp, sal, trd

vars == <<pc, rng, faults, today, args, disk, db, conn, status, out, exp, sal, trd>>

Range(s) == {s[i] : i \in DOMAIN s}

\* the sum in place of the smaller
Min_Sum(a, b) == a + b

Min(a, b) == IF a < b THEN a ELSE b

\* None, where a text or a date is expected
NoneVal == "None"

\* None, where an identifier is expected
NoneId == -1

(***************************************************************************)
(* datetime.date: a date is [y, m, d]; timedelta arithmetic goes through   *)
(* the proleptic Gregorian ordinal, as in the standard library.            *)
(***************************************************************************)
Years == 2022..2027

IsLeap(y) == (y % 4 = 0) /\ ((y % 100 # 0) \/ (y % 400 = 0))

DaysInMonth(y, m) ==
    IF m = 2 THEN (IF IsLeap(y) THEN 29 ELSE 28)
    ELSE IF m \in {4, 6, 9, 11} THEN 30 ELSE 31

DaysBeforeYear(y) ==
    (y - 1) * 365 + ((y - 1) \div 4) - ((y - 1) \div 100) + ((y - 1) \div 400)

RECURSIVE DaysBeforeMonth(_, _)
DaysBeforeMonth(y, m) ==
    IF m = 1 THEN 0 ELSE DaysBeforeMonth(y, m - 1) + DaysInMonth(y, m - 1)

Date(y, m, d) == [y |-> y, m |-> m, d |-> d]

ToOrdinal(dt) == DaysBeforeYear(dt.y) + DaysBeforeMonth(dt.y, dt.m) + dt.d

FromOrdinal(n) ==
    LET y == CHOOSE yy \in Years :
                 DaysBeforeYear(yy) < n /\ n <= DaysBeforeYear(yy + 1)
        r == n - DaysBeforeYear(y)
        m == CHOOSE mm \in 1..12 :
                 /\ DaysBeforeMonth(y, mm) < r
                 /\ r <= DaysBeforeMonth(y, mm) + DaysInMonth(y, mm)
    IN  Date(y, m, r - DaysBeforeMonth(y, m))

\* date - timedelta(days=n) and date + timedelta(days=n)
MinusDays(dt, n) == FromOrdinal(ToOrdinal(dt) - n)

PlusDays(dt, n) == FromOrdinal(ToOrdinal(dt) + n)

DateLeq(a, b) == ToOrdinal(a) <= ToOrdinal(b)

\* date.isoformat(): the year, month and day fields of "YYYY-MM-DD"
IsoFormat(dt) == <<dt.y, dt.m, dt.d>>

\* ISO date strings compare as text, field by field
IsoLeq(a, b) ==
    \/ a[1] < b[1]
    \/ a[1] = b[1] /\ a[2] < b[2]
    \/ a[1] = b[1] /\ a[2] = b[2] /\ a[3] <= b[3]

IsoLess(a, b) == IsoLeq(a, b) /\ a # b

\* date.replace(...) raises ValueError when the day does not exist in the month
ValidDate(dt) == dt.m \in 1..12 /\ dt.d \in 1..DaysInMonth(dt.y, dt.m)

\* a step that goes from December to February
NextMonth_SkipJanuary(dt) ==
    IF dt.m = 12 THEN Date(dt.y + 1, 2, dt.d) ELSE Date(dt.y, dt.m + 1, dt.d)

\* the "Move to next month" step of the three scanning loops
NextMonth(dt) ==
    IF dt.m = 12 THEN Date(dt.y + 1, 1, dt.d) ELSE Date(dt.y, dt.m + 1, dt.d)

(***************************************************************************)
(* The random module.  Each operator is the set of values a call may       *)
(* return under the current behaviour of the source; site names the call.  *)
(* rng.mode is "low", "high" or "spread"; the call sites in rng.pinned     *)
(* return their lowest value whatever the mode.                            *)
(***************************************************************************)
Pick(site, lowest, highest, sampled) ==
    IF rng.mode = "low" \/ site \in rng.pinned THEN {lowest}
    ELSE IF rng.mode = "high" THEN {highest}
    ELSE sampled

\* random.random() < p, for 0 < p < 1
RandomBelow(site) == Pick(site, TRUE, FALSE, BOOLEAN)

\* a draw that may exceed the upper end
Randint_Beyond(site, a, b) == Pick(site, a, b + 1, {a, b + 1})

\* a draw that may fall under the lower end
Randint_Below(site, a, b) == Pick(site, a - 1, b, {a - 1, b})

\* random.randint(a, b): both ends and the middle
Randint(site, a, b) == Pick(site, a, b, {a, (a + b) \div 2, b})

\* random.choice(seq)
Choice(site, seq) == Pick(site, seq[1], seq[Len(seq)], Range(seq))

\* random.uniform(a, b): one of the ends
Uniform(site, a, b) == Pick(site, a, b, {a, b})

(***************************************************************************)
(* The constant tables of the script.                                      *)
(***************************************************************************)
\* (description, min_cents, max_cents) by category
EXPENSE_TEMPLATES ==
    ("Groceries" :> <<
        <<"Whole Foods Market", 4500, 15000>>,
        <<"Trader Joe's", 3000, 8000>>,
        <<"Safeway", 2500, 12000>>,
        <<"Costco", 8000, 25000>>,
        <<"Target - Groceries", 2000, 6000>>,
        <<"Walmart Grocery", 3000, 10000>>,
        <<"Kroger", 2500, 9000>>,
        <<"Aldi", 2000, 5000>>,
        <<"Sprouts Farmers Market", 3500, 8000>>,
        <<"Local Farmers Market", 1500, 4000>>
       >>)
    @@ ("Restaurants" :> <<
        <<"Chipotle Mexican Grill", 1200, 2500>>,
        <<"Olive Garden", 2500, 6000>>,
        <<"Chili's", 2000, 5000>>,
        <<"Panera Bread", 1000, 2000>>,
        <<"Subway", 800, 1500>>,
        <<"McDonald's", 600, 1500>>,
        <<"Thai Palace Restaurant", 1500, 3500>>,
        <<"Sushi House", 2000, 5000>>,
        <<"Italian Bistro", 3000, 7000>>,
        <<"Local Diner", 1200, 2500>>,
        <<"Pizza Hut", 1500, 3500>>,
        <<"Taco Bell", 500, 1200>>,
        <<"Five Guys", 1200, 2000>>,
        <<"Cheesecake Factory", 3000, 7000>>
       >>)
    @@ ("Coffee & Snacks" :> <<
        <<"Starbucks", 450, 800>>,
        <<"Dunkin'", 300, 600>>,
        <<"Peet's Coffee", 400, 700>>,
        <<"Local Coffee Shop", 350, 650>>,
        <<"7-Eleven", 200, 800>>,
        <<"Vending Machine", 150, 300>>
       >>)
    @@ ("Gas" :> <<
        <<"Shell Gas Station", 3500, 7000>>,
        <<"Chevron", 3000, 6500>>,
        <<"Exxon", 3200, 6800>>,
        <<"BP Gas Station", 3000, 6000>>,
        <<"Costco Gas", 2800, 5500>>,
        <<"76 Gas Station", 3100, 6200>>
       >>)
    @@ ("Public Transit" :> <<
        <<"Metro Card Reload", 2000, 10000>>,
        <<"Bus Fare", 250, 500>>,
        <<"Uber", 800, 3500>>,
        <<"Lyft", 750, 3200>>,
        <<"Train Ticket", 500, 2500>>,
        <<"Airport Shuttle", 1500, 3000>>
       >>)
    @@ ("Parking" :> <<
        <<"Downtown Parking Garage", 1000, 3000>>,
        <<"Airport Parking", 2000, 8000>>,
        <<"Street Parking Meter", 200, 800>>,
        <<"Event Parking", 1500, 4000>>,
        <<"Monthly Parking Pass", 10000, 25000>>
       >>)
    @@ ("Rent/Mortgage" :> <<
        <<"Monthly Rent Payment", 120000, 250000>>,
        <<"Mortgage Payment", 150000, 350000>>
       >>)
    @@ ("Maintenance" :> <<
        <<"Plumber - Leak Repair", 15000, 40000>>,
        <<"Electrician Service", 10000, 30000>>,
        <<"HVAC Maintenance", 8000, 20000>>,
        <<"Lawn Care Service", 5000, 15000>>,
        <<"House Cleaning Service", 8000, 20000>>,
        <<"Handyman Services", 5000, 15000>>,
        <<"Pest Control", 10000, 25000>>
       >>)
    @@ ("Insurance" :> <<
        <<"Renters Insurance", 2000, 5000>>,
        <<"Home Insurance Premium", 8000, 20000>>
       >>)
    @@ ("Utilities" :> <<
        <<"Electric Bill - Power Co", 8000, 20000>>,
        <<"Gas Bill - Utility Co", 4000, 12000>>,
        <<"Water & Sewer Bill", 3000, 8000>>,
        <<"Internet - Comcast", 5000, 10000>>,
        <<"Phone Bill - Verizon", 4000, 12000>>,
        <<"Trash Collection", 2000, 5000>>
       >>)
    @@ ("Entertainment" :> <<
        <<"Netflix Subscription", 1599, 2299>>,
        <<"Spotify Premium", 999, 1599>>,
        <<"Movie Theater", 1200, 3500>>,
        <<"Concert Tickets", 5000, 20000>>,
        <<"Bowling Alley", 2000, 5000>>,
        <<"Mini Golf", 1500, 3000>>,
        <<"Escape Room", 2500, 4000>>,
        <<"Museum Admission", 1500, 3000>>,
        <<"Disney+ Subscription", 799, 1399>>,
        <<"HBO Max", 1599, 1599>>,
        <<"Video Game Purchase", 2000, 7000>>,
        <<"Steam Game Sale", 500, 3000>>,
        <<"Book Purchase", 1000, 2500>>
       >>)
    @@ ("Shopping" :> <<
        <<"Amazon.com", 1500, 15000>>,
        <<"Target", 2000, 10000>>,
        <<"Walmart", 1500, 8000>>,
        <<"Best Buy - Electronics", 5000, 50000>>,
        <<"IKEA", 5000, 30000>>,
        <<"Home Depot", 3000, 20000>>,
        <<"Macy's", 4000, 15000>>,
        <<"Nordstrom", 5000, 25000>>,
        <<"Old Navy", 2000, 8000>>,
        <<"Nike Store", 5000, 15000>>,
        <<"Apple Store", 10000, 150000>>,
        <<"Bed Bath & Beyond", 3000, 10000>>,
        <<"Etsy", 2000, 8000>>
       >>)
    @@ ("Healthcare" :> <<
        <<"CVS Pharmacy", 1000, 5000>>,
        <<"Walgreens", 800, 4000>>,
        <<"Doctor Visit Copay", 2000, 5000>>,
        <<"Dentist - Checkup", 5000, 15000>>,
        <<"Eye Exam", 5000, 15000>>,
        <<"Prescription Medication", 1000, 10000>>,
        <<"Urgent Care Visit", 5000, 15000>>,
        <<"Lab Work", 2000, 10000>>,
        <<"Physical Therapy", 3000, 10000>>
       >>)
    @@ ("Other" :> <<
        <<"ATM Withdrawal", 2000, 20000>>,
        <<"Bank Fee", 500, 3500>>,
        <<"Gift - Birthday", 2000, 10000>>,
        <<"Charity Donation", 2000, 20000>>,
        <<"Pet Supplies - PetSmart", 2000, 8000>>,
        <<"Vet Visit", 5000, 30000>>,
        <<"Dry Cleaning", 1500, 4000>>,
        <<"Haircut", 2000, 6000>>,
        <<"Gym Membership", 2500, 6000>>,
        <<"Office Supplies", 1000, 5000>>
       >>)

\* (name, color, style)
TAGS == <<
    <<"recurring", "#8b5cf6", "solid">>,
    <<"essential", "#ef4444", "solid">>,
    <<"discretionary", "#10b981", "outline">>,
    <<"tax-deductible", "#3b82f6", "solid">>,
    <<"reimbursable", "#f59e0b", "outline">>,
    <<"subscription", "#ec4899", "striped">>,
    <<"one-time", "#6b7280", "outline">>,
    <<"emergency", "#dc2626", "solid">>,
    <<"planned", "#059669", "solid">>,
    <<"impulse", "#f97316", "striped">>,
    <<"gift", "#d946ef", "solid">>,
    <<"work-related", "#0891b2", "solid">>
>>

\* (name, pattern, action_type, action_value)
RULES == <<
    <<"Starbucks to Coffee", "(?i)starbucks", "assign_category", "Coffee & Snacks">>,
    <<"Gas Stations", "(?i)(shell|chevron|exxon|bp|76).*gas", "assign_category", "Gas">>,
    <<"Uber/Lyft Rides", "(?i)(uber|lyft)", "assign_category", "Public Transit">>,
    <<"Streaming Services", "(?i)(netflix|spotify|disney|hbo|hulu)", "assign_tag", "subscription">>,
    <<"Amazon Orders", "(?i)amazon", "assign_category", "Shopping">>,
    <<"Grocery Stores", "(?i)(whole foods|trader joe|safeway|kroger|aldi)", "assign_category", "Groceries">>,
    <<"Pharmacy", "(?i)(cvs|walgreens|rite aid)", "assign_category", "Healthcare">>,
    <<"Fast Food", "(?i)(mcdonald|taco bell|wendy|burger king)", "assign_category", "Restaurants">>
>>

\* (name, account_type)
ACCOUNTS == <<
    <<"Primary Checking", "Cash">>,
    <<"Savings Account", "Cash">>,
    <<"Credit Card", "Cash">>,
    <<"Brokerage Account", "Securities">>,
    <<"Roth IRA", "Securities">>
>>

\* (symbol, name, typical_price_cents, volatility_percent)
TRADING_SYMBOLS == <<
    <<"AAPL", "Apple Inc.", 17500, 15>>,
    <<"MSFT", "Microsoft Corporation", 38000, 12>>,
    <<"GOOGL", "Alphabet Inc.", 14000, 18>>,
    <<"AMZN", "Amazon.com Inc.", 18500, 20>>,
    <<"NVDA", "NVIDIA Corporation", 50000, 30>>,
    <<"VTI", "Vanguard Total Stock Market ETF", 24000, 10>>,
    <<"VOO", "Vanguard S&P 500 ETF", 45000, 10>>,
    <<"BND", "Vanguard Total Bond Market ETF", 7500, 3>>,
    <<"SCHD", "Schwab US Dividend Equity ETF", 7800, 8>>,
    <<"QQQ", "Invesco QQQ Trust", 40000, 15>>
>>

\* SALARY_CONFIG
SALARY_CONFIG ==
    [base_annual_salary |-> 8500000,
     yearly_raise_percent |-> <<2, 5>>,
     bonus_months |-> {3, 12},
     bonus_percent |-> <<5, 20>>,
     deduction_percent |-> <<1, 5>>]

(***************************************************************************)
(* The store: one sequence of rows per table, in rowid order.  disk is the *)
(* committed database file, db is what the open connection sees (disk plus *)
(* the statements of the open transaction).                                *)
(***************************************************************************)
\* the default categories the application's migrations create
DefaultCategories ==
    [i \in 1..14 |->
        [id |-> i,
         name |-> <<"Groceries", "Restaurants", "Coffee & Snacks", "Gas",
                    "Public Transit", "Parking", "Rent/Mortgage", "Maintenance",
                    "Insurance", "Utilities", "Entertainment", "Shopping",
                    "Healthcare", "Other">>[i]]]

FreshStore(categories) ==
    [categories |-> categories, accounts |-> <<>>, tags |-> <<>>, rules |-> <<>>,
     expenses |-> <<>>, expense_tags |-> <<>>, trading_activities |-> <<>>,
     market_data |-> <<>>, exists |-> TRUE]

\* the identifier SQLite assigns to the next inserted row
NextId(table) ==
    IF table = <<>> THEN 1
    ELSE 1 + (CHOOSE n \in {r.id : r \in Range(table)} :
                  \A r \in Range(table) : r.id <= n)

\* {row["name"]: row["id"] for row in cursor.fetchall()}: a later row wins
NameMap(table) ==
    [n \in {r.name : r \in Range(table)} |->
        table[CHOOSE i \in DOMAIN table :
                  /\ table[i].name = n
                  /\ \A j \in DOMAIN table : table[j].name = n => j <= i].id]

get_category_map(store) == NameMap(store.categories)

get_tag_map(store) == NameMap(store.tags)

get_account_map(store) == NameMap(store.accounts)

\* dict.get(key): None when the key is absent
MapGet(map, key) == IF key \in DOMAIN map THEN map[key] ELSE NoneId

\* cursor.executemany of a plain INSERT: every row gets the next identifier
RECURSIVE InsertAll(_, _)
InsertAll(table, rows) ==
    IF rows = <<>> THEN table
    ELSE InsertAll(Append(table, [Head(rows) EXCEPT !.id = NextId(table)]),
                   Tail(rows))

\* INSERT OR IGNORE keyed on the unique name column
InsertOrIgnoreByName(table, row) ==
    IF \E r \in Range(table) : r.name = row.name THEN table
    ELSE Append(table, [row EXCEPT !.id = NextId(table)])

(***************************************************************************)
(* seed_trading_activities                                                 *)
(***************************************************************************)
CASH_SYMBOL == "$CASH-USD"

ETF_SYMBOLS == {"VTI", "VOO", "BND", "SCHD", "QQQ"}

dividend_symbols == <<"AAPL", "MSFT", "SCHD", "VTI", "VOO">>

FEE_CHOICES == <<0, 0, 0, 100, 495>>

\* amount / 100: the quotient with its two decimals
Div100(amount) == [units |-> amount \div 100, hundredths |-> amount % 100]

\* positions.get(position_key, 0)
PositionsGet(positions, key) == IF key \in DOMAIN positions THEN positions[key] ELSE 0

\* positions[position_key] = qty
PositionsSet(positions, key, qty) ==
    [k \in DOMAIN positions \cup {key} |-> IF k = key THEN qty ELSE positions[k]]

Activity(date, symbol, quantity, kind, price, fee, account_id, notes) ==
    [id |-> 0, date |-> IsoFormat(date), symbol |-> symbol, quantity |-> quantity,
     activity_type |-> kind, unit_price_cents |-> price, currency |-> "USD",
     fee_cents |-> fee, account_id |-> account_id, notes |-> notes]

IdleTrd == [activities |-> <<>>, positions |-> <<>>, current_date |-> NoneVal,
            start_date |-> NoneVal, brokerage_id |-> NoneId, ira_id |-> NoneId,
            num_trades |-> 0, i |-> 0]

\* raising an exception: the function is left and main's finally clause runs
Raise(error) == pc' = "unwind" /\ status' = error

\* lines 640-673: the locals and the two initial deposits
TradingStart ==
    /\ pc = "trading"
    /\ LET account_map == get_account_map(db)
           brokerage_id == MapGet(account_map, "Brokerage Account")
           ira_id == MapGet(account_map, "Roth IRA")
           start_date == MinusDays(today, args.days)
       IN  trd' = [activities |->
                       << Activity(start_date, CASH_SYMBOL, Div100(500000), "DEPOSIT",
                                   100, 0, brokerage_id, <<"Initial deposit">>),
                          Activity(start_date, CASH_SYMBOL, Div100(600000), "DEPOSIT",
                                   100, 0, ira_id, <<"Annual IRA contribution">>) >>,
                   positions |-> <<>>,
                   current_date |-> start_date,
                   start_date |-> start_date,
                   brokerage_id |-> brokerage_id,
                   ira_id |-> ira_id,
                   num_trades |-> args.days \div 10,
                   i |-> 0]
    /\ pc' = "trd_contrib"
    /\ out' = Append(out, "Seeding trading activities")
    /\ UNCHANGED <<rng, faults, today, args, disk, db, conn, status, exp, sal>>

\* lines 677-715: one iteration of the monthly contribution loop
ContributionStep ==
    /\ pc = "trd_contrib"
    /\ DateLeq(trd.current_date, today)
    /\ \E contrib_amount \in Randint("contrib_amount", 50000, 150000),
          ira_contrib \in Randint("ira_contrib", 600000, 650000) :
         LET monthly == Activity(trd.current_date, CASH_SYMBOL, Div100(contrib_amount),
                                 "DEPOSIT", 100, 0, trd.brokerage_id,
                                 <<"Monthly investment contribution">>)
             annual == Activity(trd.current_date, CASH_SYMBOL, Div100(ira_contrib),
                                "DEPOSIT", 100, 0, trd.ira_id,
                                <<"Annual IRA contribution">>)
             added == IF trd.current_date.m = 1 /\ trd.current_date # trd.start_date
                      THEN <<monthly, annual>> ELSE <<monthly>>
             next == NextMonth(trd.current_date)
         IN  /\ trd' = [trd EXCEPT !.activities = trd.activities \o added,
                                   !.current_date = IF ValidDate(next) THEN next ELSE @]
             /\ IF ValidDate(next)
                THEN UNCHANGED <<pc, status>>
                ELSE Raise("ValueError")
    /\ UNCHANGED <<rng, faults, today, args, disk, db, conn, out, exp, sal>>

\* line 677 false: the contribution loop is left, line 719
ContributionEnd ==
    /\ pc = "trd_contrib"
    /\ ~DateLeq(trd.current_date, today)
    /\ pc' = "trd_trades"
    /\ trd' = [trd EXCEPT !.i = 0]
    /\ UNCHANGED <<rng, faults, today, args, disk, db, conn, status, out, exp, sal>>

\* int(base_price / trend_factor * volatility_factor), lines 743-748, with
\* the trend in percent per year and the volatility in percent; the quotient
\* by the trend factor is taken in whole cents
PriceCents(base_price, days_ago, trend_pct, vol_pct) ==
    (((base_price * 36500) \div (36500 + days_ago * trend_pct)) * (100 + vol_pct))
        \div 100

\* the whole pool for every account
SymbolPool_Full(account_id, ira_id) == TRADING_SYMBOLS

\* the symbol pool of an account, lines 729-737
SymbolPool(account_id, ira_id) ==
    IF account_id = ira_id
    THEN SelectSeq(TRADING_SYMBOLS, LAMBDA s : s[1] \in ETF_SYMBOLS)
    ELSE TRADING_SYMBOLS

\* the draw alone, whatever the position
IsBuyChoices_Any(current_qty) == RandomBelow("is_buy")

\* never a BUY
IsBuyChoices_Never(current_qty) == {FALSE}

\* current_qty < 5 or random.random() < 0.7, line 756
IsBuyChoices(current_qty) == IF current_qty < 5 THEN {TRUE} ELSE RandomBelow("is_buy")

\* lines 721-795: one iteration of the trade loop
TradeStep ==
    /\ pc = "trd_trades"
    /\ trd.i < trd.num_trades
    /\ \E days_ago \in Randint("trade_days_ago", 0, args.days),
          to_brokerage \in RandomBelow("trade_account") :
         LET trade_date == MinusDays(today, days_ago)
             account_id == IF to_brokerage THEN trd.brokerage_id ELSE trd.ira_id
         IN  \E symbol_info \in Choice("symbol", SymbolPool(account_id, trd.ira_id)),
                trend_pct \in Uniform("trend", 5, 15) :
               \E vol_pct \in Uniform("volatility", -symbol_info[4], symbol_info[4]) :
                 LET symbol == symbol_info[1]
                     price_cents == PriceCents(symbol_info[3], days_ago, trend_pct, vol_pct)
                     position_key == <<account_id, symbol>>
                     current_qty == PositionsGet(trd.positions, position_key)
                 IN  \E is_buy \in IsBuyChoices(current_qty) :
                       IF is_buy
                       THEN \E quantity \in Randint("quantity", 1, 10),
                               fee_cents \in Choice("fee", FEE_CHOICES) :
                              trd' = [trd EXCEPT
                                  !.positions = PositionsSet(@, position_key,
                                                             current_qty + quantity),
                                  !.activities = Append(@,
                                      Activity(trade_date, symbol, quantity, "BUY",
                                               price_cents, fee_cents, account_id,
                                               <<"Buy", quantity, "shares of", symbol>>)),
                                  !.i = @ + 1]
                       ELSE IF current_qty > 0
                       THEN \E sell_qty \in Randint("sell_qty", 1, Min(current_qty, 5)),
                               fee_cents \in Choice("fee", FEE_CHOICES) :
                              trd' = [trd EXCEPT
                                  !.positions = PositionsSet(@, position_key,
                                                             current_qty - sell_qty),
                                  !.activities = Append(@,
                                      Activity(trade_date, symbol, sell_qty, "SELL",
                                               price_cents, fee_cents, account_id,
                                               <<"Sell", sell_qty, "shares of", symbol>>)),
                                  !.i = @ + 1]
                       ELSE trd' = [trd EXCEPT !.i = @ + 1]
    /\ UNCHANGED <<pc, rng, faults, today, args, disk, db, conn, status, out, exp, sal>>

\* the trade loop is left, lines 797-801
TradesEnd ==
    /\ pc = "trd_trades"
    /\ trd.i >= trd.num_trades
    /\ pc' = "trd_dividends"
    /\ trd' = [trd EXCEPT !.current_date = trd.start_date]
    /\ UNCHANGED <<rng, faults, today, args, disk, db, conn, status, out, exp, sal>>

\* the (account, symbol) pairs in the order lines 805-806 visit them
DividendKeys(brokerage_id, ira_id) ==
    [k \in 1..(2 * Len(dividend_symbols)) |->
        IF k <= Len(dividend_symbols)
        THEN <<brokerage_id, dividend_symbols[k]>>
        ELSE <<ira_id, dividend_symbols[k - Len(dividend_symbols)]>>]

\* lines 807-828 without the tests of lines 810 and 815
RECURSIVE DividendRows_Unheld(_, _, _, _, _)
DividendRows_Unheld(keys, k, positions, per_share, date) ==
    IF k > Len(keys) THEN <<>>
    ELSE LET qty == PositionsGet(positions, keys[k])
         IN  <<Activity(date, keys[k][2], qty, "DIVIDEND", per_share[k], 0,
                        keys[k][1],
                        <<"Quarterly dividend:", qty, "shares x", per_share[k]>>)>>
             \o DividendRows_Unheld(keys, k + 1, positions, per_share, date)

\* lines 807-828 with the quantity and the amount per share exchanged
RECURSIVE DividendRows_Exchanged(_, _, _, _, _)
DividendRows_Exchanged(keys, k, positions, per_share, date) ==
    IF k > Len(keys) THEN <<>>
    ELSE LET qty == PositionsGet(positions, keys[k])
             rest == DividendRows_Exchanged(keys, k + 1, positions, per_share, date)
         IN  IF qty > 0 /\ qty * per_share[k] > 0
             THEN <<Activity(date, keys[k][2], per_share[k], "DIVIDEND", qty, 0,
                             keys[k][1],
                             <<"Quarterly dividend:", qty, "shares x", per_share[k]>>)>>
                  \o rest
             ELSE rest

\* lines 807-828 for the keys from k on; per_share[k] is the draw of line 812
RECURSIVE DividendRows(_, _, _, _, _)
DividendRows(keys, k, positions, per_share, date) ==
    IF k > Len(keys) THEN <<>>
    ELSE LET qty == PositionsGet(positions, keys[k])
             rest == DividendRows(keys, k + 1, positions, per_share, date)
         IN  IF qty > 0 /\ qty * per_share[k] > 0
             THEN <<Activity(date, keys[k][2], qty, "DIVIDEND", per_share[k], 0,
                             keys[k][1],
                             <<"Quarterly dividend:", qty, "shares x", per_share[k]>>)>>
                  \o rest
             ELSE rest

\* lines 802-834: one iteration of the dividend loop
DividendStep ==
    /\ pc = "trd_dividends"
    /\ DateLeq(trd.current_date, today)
    /\ LET keys == DividendKeys(trd.brokerage_id, trd.ira_id)
           held == {k \in DOMAIN keys : PositionsGet(trd.positions, keys[k]) > 0}
           next == NextMonth(trd.current_date)
       IN  \E drawn \in [held -> Randint("div_per_share", 20, 150)] :
             LET per_share == [k \in DOMAIN keys |-> IF k \in held THEN drawn[k] ELSE 0]
                 rows == IF trd.current_date.m \in {3, 6, 9, 12}
                         THEN DividendRows(keys, 1, trd.positions, per_share,
                                           trd.current_date)
                         ELSE <<>>
             IN  /\ trd' = [trd EXCEPT !.activities = trd.activities \o rows,
                                       !.current_date = IF ValidDate(next) THEN next ELSE @]
                 /\ IF ValidDate(next)
                    THEN UNCHANGED <<pc, status>>
                    ELSE Raise("ValueError")
    /\ UNCHANGED <<rng, faults, today, args, disk, db, conn, out, exp, sal>>

\* cursor.executemany of a plain INSERT that fails at row failed_at (0: no
\* failure): the rows before it are inserted in the open transaction
ExecuteMany(table, rows, failed_at) ==
    InsertAll(table, IF failed_at = 0 THEN rows ELSE SubSeq(rows, 1, failed_at - 1))

\* where the bulk insert into a table fails in this run: at no row (0) unless
\* the store is set to fail it (faults), and then at its first or last row
FailurePoints(table_name, rows) ==
    IF table_name \in faults /\ rows # <<>> THEN {1, Len(rows)} ELSE {0}

\* lines 837-845: the loop is left, the bulk insert and the commit
InsertActivities ==
    /\ pc = "trd_dividends"
    /\ ~DateLeq(trd.current_date, today)
    /\ \E failed_at \in FailurePoints("trading_activities", trd.activities) :
         /\ db' = [db EXCEPT !.trading_activities =
                                 ExecuteMany(@, trd.activities, failed_at)]
         /\ IF failed_at = 0
            THEN /\ disk' = db'
                 /\ pc' = "summary"
                 /\ out' = Append(out, "Created trading activities")
                 /\ UNCHANGED status
            ELSE /\ Raise("sqlite3.Error")
                 /\ UNCHANGED <<disk, out>>
    /\ UNCHANGED <<rng, faults, today, args, conn, exp, sal, trd>>

\* lines 320-324: the INSERT OR IGNORE statements of seed_accounts from k on
RECURSIVE InsertAccounts(_, _)
InsertAccounts(table, k) ==
    IF k > Len(ACCOUNTS) THEN table
    ELSE InsertAccounts(
             InsertOrIgnoreByName(table, [id |-> 0, name |-> ACCOUNTS[k][1],
                                          account_type |-> ACCOUNTS[k][2]]),
             k + 1)

IdleExp == [i |-> 0, category_map |-> <<>>, tag_map |-> <<>>, start_date |-> NoneVal,
            checking_id |-> NoneId, savings_id |-> NoneId,
            credit_card_id |-> NoneId, expenses_data |-> <<>>,
            expense_tags_data |-> <<>>, expenses |-> <<>>]

IdleSal == [salaries |-> <<>>, current_date |-> NoneVal, current_year |-> 0,
            current_monthly |-> 0, end_date |-> NoneVal]

(***************************************************************************)
(* seed_trading_activities on its own: every run starts at the call of     *)
(* line 951, on a store whose accounts are seeded.                         *)
(***************************************************************************)
SeededAccounts ==
    [FreshStore(DefaultCategories) EXCEPT !.accounts = InsertAccounts(<<>>, 1)]

\* (today, --days, behaviour of the random source)
TradingRuns ==
    { <<Date(2024, 3, 25), 20, "spread">>,
      <<Date(2024, 3, 1), 29, "spread">>,
      <<Date(2024, 2, 20), 20, "spread">>,
      <<Date(2024, 1, 20), 45, "low">>,
      <<Date(2024, 1, 20), 45, "high">>,
      <<Date(2024, 3, 10), 25, "low">>,
      <<Date(2024, 3, 25), 110, "low">> }

InitTrading ==
    \E run \in TradingRuns :
      /\ pc = "trading"
      /\ rng = [mode |-> run[3],
                pinned |-> {"fee", "trend", "volatility", "contrib_amount",
                            "ira_contrib", "div_per_share"}]
      /\ faults = {}
      /\ today = run[1]
      /\ args = [clear |-> FALSE, expenses |-> 0,
                 days |-> run[2]]
      /\ disk = SeededAccounts
      /\ db = SeededAccounts
      /\ conn = "open"
      /\ status = "running"
      /\ out = <<>>
      /\ exp = IdleExp
      /\ sal = IdleSal
      /\ trd = IdleTrd

NextTrading ==
    \/ TradingStart
    \/ ContributionStep
    \/ ContributionEnd
    \/ TradeStep
    \/ TradesEnd
    \/ DividendStep
    \/ InsertActivities

SpecTrading == InitTrading /\ [][NextTrading]_vars

(***************************************************************************)
(* generate_salary_schedule                                                *)
(***************************************************************************)
\* lines 336-342: the locals at the entry of the loop
SalaryLocals(start_date, end_date) ==
    [salaries |-> <<>>,
     current_date |-> [start_date EXCEPT !.d = 15],
     current_year |-> start_date.y,
     current_monthly |-> SALARY_CONFIG.base_annual_salary \div 12,
     end_date |-> end_date]

\* a raise applied with the wrong sign
RaisedMonthly_Cut(current_monthly, raise_pct) ==
    (current_monthly * (100 - raise_pct)) \div 100

\* int(current_monthly * (1 + raise_pct / 100)), line 351
RaisedMonthly(current_monthly, raise_pct) ==
    (current_monthly * (100 + raise_pct)) \div 100

\* int(amount * (1 - deduction_pct / 100)), line 363
AfterDeduction(amount, deduction_pct) == (amount * (100 - deduction_pct)) \div 100

\* a bonus of a tenth of the percentage
BonusAmount_Tenth(current_monthly, bonus_pct) == (current_monthly * bonus_pct) \div 1000

\* int(current_monthly * bonus_pct / 100), line 373
BonusAmount(current_monthly, bonus_pct) == (current_monthly * bonus_pct) \div 100

\* lines 344-388: one iteration of the loop
SalaryStep ==
    /\ pc = "salary_loop"
    /\ DateLeq(sal.current_date, sal.end_date)
    /\ LET current_date == sal.current_date
           new_year == current_date.y > sal.current_year
           bonus_month == current_date.m \in SALARY_CONFIG.bonus_months
       IN  \E raise_pct \in IF new_year
                            THEN Uniform("raise_pct",
                                         SALARY_CONFIG.yearly_raise_percent[1],
                                         SALARY_CONFIG.yearly_raise_percent[2])
                            ELSE {0},
              deducted \in RandomBelow("deduction") :
             \E deduction_pct \in IF deducted
                                  THEN Uniform("deduction_pct",
                                               SALARY_CONFIG.deduction_percent[1],
                                               SALARY_CONFIG.deduction_percent[2])
                                  ELSE {0},
                bonus_pct \in IF bonus_month
                              THEN Uniform("bonus_pct",
                                           SALARY_CONFIG.bonus_percent[1],
                                           SALARY_CONFIG.bonus_percent[2])
                              ELSE {0},
                bonus_days \in IF bonus_month THEN Randint("bonus_days", 1, 5) ELSE {0} :
               LET current_monthly == IF new_year
                                      THEN RaisedMonthly(sal.current_monthly, raise_pct)
                                      ELSE sal.current_monthly
                   amount == IF deducted
                             THEN AfterDeduction(current_monthly, deduction_pct)
                             ELSE current_monthly
                   description == IF deducted
                                  THEN "Salary Deposit (after deductions)"
                                  ELSE "Salary Deposit"
                   bonus == IF bonus_month
                            THEN BonusAmount(current_monthly, bonus_pct) ELSE 0
                   bonus_desc == IF current_date.m = 3
                                 THEN "Performance Bonus" ELSE "Year-End Bonus"
                   added == IF bonus > 0
                            THEN << <<current_date, amount, description>>,
                                    <<PlusDays(current_date, bonus_days), bonus,
                                      bonus_desc>> >>
                            ELSE << <<current_date, amount, description>> >>
               IN  sal' = [sal EXCEPT
                               !.salaries = @ \o added,
                               !.current_monthly = current_monthly,
                               !.current_year = IF new_year THEN current_date.y ELSE @,
                               !.current_date = NextMonth(current_date)]
    /\ UNCHANGED <<pc, rng, faults, today, args, disk, db, conn, status, out, exp, trd>>

\* line 344 false, line 390: the schedule is returned
SalaryReturn ==
    /\ pc = "salary_loop"
    /\ ~DateLeq(sal.current_date, sal.end_date)
    /\ pc' = "salary_return"
    /\ UNCHANGED <<rng, faults, today, args, disk, db, conn, status, out, exp, sal, trd>>

(***************************************************************************)
(* seed_expenses                                                           *)
(***************************************************************************)
\* lines 414-429, in dictionary order
category_weights ==
    << <<"Groceries", 15>>, <<"Restaurants", 12>>, <<"Coffee & Snacks", 20>>,
       <<"Gas", 8>>, <<"Public Transit", 10>>, <<"Parking", 5>>,
       <<"Rent/Mortgage", 1>>, <<"Maintenance", 2>>, <<"Insurance", 1>>,
       <<"Utilities", 2>>, <<"Entertainment", 8>>, <<"Shopping", 10>>,
       <<"Healthcare", 3>>, <<"Other", 5>> >>

\* [cat] * weight
Repeat(x, n) == [i \in 1..n |-> x]

\* lines 432-434: the flattened list, from entry k of category_weights on
RECURSIVE WeightedFrom(_)
WeightedFrom(k) ==
    IF k > Len(category_weights) THEN <<>>
    ELSE Repeat(category_weights[k][1], category_weights[k][2]) \o WeightedFrom(k + 1)

weighted_categories == WeightedFrom(1)

\* lines 437-447, in dictionary order
tag_probabilities ==
    << <<"recurring", {"Rent/Mortgage", "Insurance", "Utilities"}>>,
       <<"essential", {"Groceries", "Gas", "Healthcare", "Rent/Mortgage", "Utilities"}>>,
       <<"discretionary", {"Entertainment", "Shopping", "Restaurants", "Coffee & Snacks"}>>,
       <<"subscription", {}>> >>

\* lines 485-494
note_templates ==
    <<"Paid with credit card", "Split with roommate",
      "Business expense - need to submit", "Birthday celebration",
      "Weekly shopping", "Emergency purchase", "Sale item", "Used coupon">>

\* lines 536-543: (description, min_cents, max_cents, payer)
other_income ==
    << <<"Tax Refund", 30000, 150000, "IRS">>,
       <<"Cashback Reward", 1000, 5000, "Credit Card Co">>,
       <<"Reimbursement", 2000, 10000, "Company ABC">>,
       <<"Gift Received", 2500, 10000, "Family Member">>,
       <<"Sold Item", 1500, 8000, "eBay Buyer">>,
       <<"Freelance Payment", 20000, 80000, "Client LLC">> >>

\* the largest value sampled for int(random.paretovariate(1.5) * 30)
ParetoTop == 3000

\* int(random.paretovariate(1.5) * 30), line 467: at least 30; the sampled
\* values reach both ends of the residues modulo days_back
ParetoTimes30(site, days_back) ==
    Pick(site, 30, ParetoTop,
         {30} \cup {n \in 30..(29 + days_back) : n % days_back \in {0, days_back - 1}})

\* where sep first occurs in text (0: nowhere), looking from position i on
RECURSIVE Find(_, _, _)
Find(text, sep, i) ==
    IF i + Len(sep) - 1 > Len(text) THEN 0
    ELSE IF SubSeq(text, i, i + Len(sep) - 1) = sep THEN i
    ELSE Find(text, sep, i + 1)

\* text.split(sep)[0]
SplitFirst(text, sep) ==
    IF Find(text, sep, 1) = 0 THEN text ELSE SubSeq(text, 1, Find(text, sep, 1) - 1)

\* a row with payer and payee exchanged
ExpenseRow_Swapped(date, amount_cents, description, category_id, account_id, notes, payer, payee) ==
    [id |-> 0, date |-> IsoFormat(date), amount_cents |-> amount_cents,
     currency |-> "USD", description |-> description, category_id |-> category_id,
     account_id |-> account_id, notes |-> notes, payer |-> payee, payee |-> payer]

\* the tuple of lines 500-511, 521-532 and 556-567, as a row of expenses
ExpenseRow(date, amount_cents, description, category_id, account_id, notes, payer, payee) ==
    [id |-> 0, date |-> IsoFormat(date), amount_cents |-> amount_cents,
     currency |-> "USD", description |-> description, category_id |-> category_id,
     account_id |-> account_id, notes |-> notes, payer |-> payer, payee |-> payee]

\* the account chosen by the amount alone
AccountChoices_ByAmount(category_name, amount_cents, checking_id, credit_card_id) ==
    IF amount_cents > 50000
    THEN {IF below THEN checking_id ELSE credit_card_id :
              below \in RandomBelow("large_purchase")}
    ELSE {IF below THEN credit_card_id ELSE checking_id :
              below \in RandomBelow("small_purchase")}

\* lines 475-480: the accounts an expense may be booked on
AccountChoices(category_name, amount_cents, checking_id, credit_card_id) ==
    IF category_name \in {"Rent/Mortgage", "Utilities", "Insurance"}
    THEN {checking_id}
    ELSE IF amount_cents > 50000
    THEN {IF below THEN checking_id ELSE credit_card_id :
              below \in RandomBelow("large_purchase")}
    ELSE {IF below THEN credit_card_id ELSE checking_id :
              below \in RandomBelow("small_purchase")}

\* lines 483-495
NoteChoices ==
    UNION {IF noted THEN Choice("note", note_templates) ELSE {NoneVal} :
               noted \in RandomBelow("noted")}

\* lines 399-450: the maps and the locals
ExpensesStart ==
    /\ pc = "expenses"
    /\ LET account_map == get_account_map(db)
       IN  exp' = [i |-> 0,
                   category_map |-> get_category_map(db),
                   tag_map |-> get_tag_map(db),
                   start_date |-> MinusDays(today, args.days),
                   checking_id |-> MapGet(account_map, "Primary Checking"),
                   savings_id |-> MapGet(account_map, "Savings Account"),
                   credit_card_id |-> MapGet(account_map, "Credit Card"),
                   expenses_data |-> <<>>,
                   expense_tags_data |-> <<>>,
                   expenses |-> <<>>]
    /\ pc' = "exp_loop"
    /\ out' = Append(out, "Seeding expenses")
    /\ UNCHANGED <<rng, faults, today, args, disk, db, conn, status, sal, trd>>

\* lines 452-512 with the day offset 0 where days_back is 0
ExpenseStep_ZeroOffset ==
    /\ pc = "exp_loop"
    /\ exp.i < args.expenses
    /\ \E category_name \in Choice("category", weighted_categories) :
         IF category_name \notin DOMAIN EXPENSE_TEMPLATES
         THEN /\ exp' = [exp EXCEPT !.i = @ + 1]
              /\ UNCHANGED <<pc, status>>
         ELSE \E template \in Choice("template", EXPENSE_TEMPLATES[category_name]) :
                \E amount_cents \in Randint("amount_cents", template[2], template[3]) :
                  \E pareto30 \in ParetoTimes30("days_ago", IF args.days = 0 THEN 1
                                                            ELSE args.days),
                     account_id \in AccountChoices(category_name, amount_cents,
                                                   exp.checking_id,
                                                   exp.credit_card_id),
                     notes \in NoteChoices :
                    LET description == template[1]
                        days_ago == IF args.days = 0 THEN 0 ELSE pareto30 % args.days
                        expense_date == MinusDays(today, days_ago)
                        category_id == MapGet(exp.category_map, category_name)
                        payee == SplitFirst(description, " - ")
                    IN  /\ exp' = [exp EXCEPT
                               !.i = @ + 1,
                               !.expenses_data = Append(@,
                                   ExpenseRow(expense_date, 0 - amount_cents,
                                              description, category_id, account_id,
                                              notes, NoneVal, payee))]
                        /\ UNCHANGED <<pc, status>>
    /\ UNCHANGED <<rng, faults, today, args, disk, db, conn, out, sal, trd>>

\* lines 452-512: one iteration of the expense loop
ExpenseStep ==
    /\ pc = "exp_loop"
    /\ exp.i < args.expenses
    /\ \E category_name \in Choice("category", weighted_categories) :
         IF category_name \notin DOMAIN EXPENSE_TEMPLATES
         THEN /\ exp' = [exp EXCEPT !.i = @ + 1]
              /\ UNCHANGED <<pc, status>>
         ELSE \E template \in Choice("template", EXPENSE_TEMPLATES[category_name]) :
                \E amount_cents \in Randint("amount_cents", template[2], template[3]) :
                  IF args.days = 0
                  THEN /\ Raise("ZeroDivisionError")
                       /\ UNCHANGED exp
                  ELSE \E pareto30 \in ParetoTimes30("days_ago", args.days),
                          account_id \in AccountChoices(category_name, amount_cents,
                                                        exp.checking_id,
                                                        exp.credit_card_id),
                          notes \in NoteChoices :
                         LET description == template[1]
                             days_ago == pareto30 % args.days
                             expense_date == MinusDays(today, days_ago)
                             category_id == MapGet(exp.category_map, category_name)
                             payee == SplitFirst(description, " - ")
                         IN  /\ exp' = [exp EXCEPT
                                    !.i = @ + 1,
                                    !.expenses_data = Append(@,
                                        ExpenseRow(expense_date, 0 - amount_cents,
                                                   description, category_id, account_id,
                                                   notes, NoneVal, payee))]
                             /\ UNCHANGED <<pc, status>>
    /\ UNCHANGED <<rng, faults, today, args, disk, db, conn, out, sal, trd>>

\* lines 514-519: the loop is left and generate_salary_schedule is called
ExpensesEnd ==
    /\ pc = "exp_loop"
    /\ exp.i >= args.expenses
    /\ sal' = SalaryLocals(exp.start_date, today)
    /\ pc' = "salary_loop"
    /\ out' = Append(out, "Generating salary schedule")
    /\ UNCHANGED <<rng, faults, today, args, disk, db, conn, status, exp, trd>>

\* lines 520-533: the rows of the schedule from entry k on
RECURSIVE SalaryRows(_, _, _)
SalaryRows(salary_schedule, k, checking_id) ==
    IF k > Len(salary_schedule) THEN <<>>
    ELSE <<ExpenseRow(salary_schedule[k][1], salary_schedule[k][2],
                      salary_schedule[k][3], NoneId, checking_id, NoneVal,
                      "Employer Inc.", NoneVal)>>
         \o SalaryRows(salary_schedule, k + 1, checking_id)

\* lines 520-546: the schedule is appended to the stream
AppendSalaries ==
    /\ pc = "salary_return"
    /\ exp' = [exp EXCEPT !.i = 0,
                          !.expenses_data = @ \o SalaryRows(sal.salaries, 1,
                                                            exp.checking_id)]
    /\ pc' = "income_loop"
    /\ UNCHANGED <<rng, faults, today, args, disk, db, conn, status, out, sal, trd>>

\* lines 547-568: one iteration of the other-income loop
OtherIncomeStep ==
    /\ pc = "income_loop"
    /\ exp.i < args.days \div 60
    /\ \E income \in Choice("other_income", other_income) :
         \E amount_cents \in Randint("income_amount", income[2], income[3]),
            days_ago \in Randint("income_days_ago", 0, args.days) :
           LET desc == income[1]
               expense_date == MinusDays(today, days_ago)
               income_account == IF desc = "Tax Refund"
                                 THEN exp.savings_id ELSE exp.checking_id
           IN  exp' = [exp EXCEPT
                      !.i = @ + 1,
                      !.expenses_data = Append(@,
                          ExpenseRow(expense_date, amount_cents, desc, NoneId,
                                     income_account, NoneVal, income[4], NoneVal))]
    /\ UNCHANGED <<pc, rng, faults, today, args, disk, db, conn, status, out, sal, trd>>

\* "SELECT id, description, category_id FROM expenses ORDER BY id", line 581
SelectExpenses(store) ==
    [k \in DOMAIN store.expenses |->
        [id |-> store.expenses[k].id,
         description |-> store.expenses[k].description,
         category_id |-> store.expenses[k].category_id]]

\* lines 570-587: the loop is left, the bulk insert, the commit and the
\* query of the tag pass
InsertExpenses ==
    /\ pc = "income_loop"
    /\ exp.i >= args.days \div 60
    /\ \E failed_at \in FailurePoints("expenses", exp.expenses_data) :
         /\ db' = [db EXCEPT !.expenses = ExecuteMany(@, exp.expenses_data, failed_at)]
         /\ IF failed_at = 0
            THEN /\ disk' = db'
                 /\ exp' = [exp EXCEPT !.i = 1, !.expenses = SelectExpenses(db')]
                 /\ pc' = "tag_loop"
                 /\ out' = Append(out, "Assigning tags to expenses")
                 /\ UNCHANGED status
            ELSE /\ Raise("sqlite3.Error")
                 /\ UNCHANGED <<disk, exp, out>>
    /\ UNCHANGED <<rng, faults, today, args, conn, sal, trd>>

\* str.lower() of one character
LowerChar(c) ==
    LET upper == "ABCDEFGHIJKLMNOPQRSTUVWXYZ"
        lower == "abcdefghijklmnopqrstuvwxyz"
        at == Find(upper, c, 1)
    IN  IF at = 0 THEN c ELSE SubSeq(lower, at, at)

\* text.lower(), from character i on
RECURSIVE LowerFrom(_, _)
LowerFrom(text, i) ==
    IF i > Len(text) THEN ""
    ELSE LowerChar(SubSeq(text, i, i)) \o LowerFrom(text, i + 1)

Lower(text) == LowerFrom(text, 1)

\* sub in text
Contains(text, sub) == Find(text, sub, 1) # 0

\* id_to_category.get(category_id, ""), lines 587 and 593
CategoryNameOf(category_map, category_id) ==
    IF \E n \in DOMAIN category_map : category_map[n] = category_id
    THEN CHOOSE n \in DOMAIN category_map : category_map[n] = category_id
    ELSE ""

\* lines 598-600: the tags the category of a record may bring
CategoryTagChoices(category_name) ==
    LET eligible == {tag_probabilities[k][1] : k \in
                        {j \in DOMAIN tag_probabilities :
                            category_name \in tag_probabilities[j][2]}}
    IN  {chosen \in SUBSET eligible :
            \A t \in eligible : (t \in chosen) \in RandomBelow("category_tag")}

\* lines 603-612 matching the description as it is written, without lower()
PatternTags_CaseSensitive(description) ==
    (IF \E word \in {"netflix", "spotify", "disney", "hbo", "subscription"} :
            Contains(description, word)
     THEN {"subscription", "recurring"} ELSE {})
    \cup (IF Contains(description, "gift") THEN {"gift"} ELSE {})

\* lines 603-612: the tags the description forces
PatternTags(description) ==
    LET desc_lower == Lower(description)
    IN  (IF \E word \in {"netflix", "spotify", "disney", "hbo", "subscription"} :
                Contains(desc_lower, word)
         THEN {"subscription", "recurring"} ELSE {})
        \cup (IF Contains(desc_lower, "gift") THEN {"gift"} ELSE {})

\* lines 615-620: the three flat draws
FlatTagChoices ==
    {chosen \in SUBSET {"tax-deductible", "reimbursable", "impulse"} :
        \A t \in {"tax-deductible", "reimbursable", "impulse"} :
            (t \in chosen) \in RandomBelow("flat_tag")}

\* the names of a set in the order of the TAGS table, or in the reverse order
InTagsOrder(names) ==
    SelectSeq([k \in DOMAIN TAGS |-> TAGS[k][1]], LAMBDA n : n \in names)

Reverse(seq) == [k \in DOMAIN seq |-> seq[Len(seq) + 1 - k]]

\* for tag_name in tags_to_add, line 623: a set of strings is iterated in an
\* order that depends on the hash seed of the process
IterationOrders(names) ==
    Pick("set_order", InTagsOrder(names), Reverse(InTagsOrder(names)),
         {order \in [1..Cardinality(names) -> names] : Range(order) = names})

\* the pairs of one record without the test of the identifier
RECURSIVE TagPairs_Unchecked(_, _, _, _)
TagPairs_Unchecked(order, k, expense_id, tag_map) ==
    IF k > Len(order) THEN <<>>
    ELSE <<[expense_id |-> expense_id, tag_id |-> MapGet(tag_map, order[k])]>>
         \o TagPairs_Unchecked(order, k + 1, expense_id, tag_map)

\* lines 623-626: the pairs of one record, for the names from k on
RECURSIVE TagPairs(_, _, _, _)
TagPairs(order, k, expense_id, tag_map) ==
    IF k > Len(order) THEN <<>>
    ELSE LET tag_id == MapGet(tag_map, order[k])
             rest == TagPairs(order, k + 1, expense_id, tag_map)
         IN  IF tag_id # NoneId /\ tag_id # 0
             THEN <<[expense_id |-> expense_id, tag_id |-> tag_id]>> \o rest
             ELSE rest

\* lines 589-626: one iteration of the tag pass
TagStep ==
    /\ pc = "tag_loop"
    /\ exp.i <= Len(exp.expenses)
    /\ LET expense == exp.expenses[exp.i]
           category_name == CategoryNameOf(exp.category_map, expense.category_id)
       IN  \E by_category \in CategoryTagChoices(category_name),
              flat \in FlatTagChoices :
             LET tags_to_add == by_category \cup PatternTags(expense.description)
                                    \cup flat
             IN  \E order \in IterationOrders(tags_to_add) :
                   exp' = [exp EXCEPT
                       !.i = @ + 1,
                       !.expense_tags_data =
                           @ \o TagPairs(order, 1, expense.id, exp.tag_map)]
    /\ UNCHANGED <<pc, rng, faults, today, args, disk, db, conn, status, out, sal, trd>>

\* INSERT OR IGNORE INTO expense_tags: the pair is the key of the table
InsertOrIgnorePair(table, pair) ==
    IF \E r \in Range(table) : r = pair THEN table ELSE Append(table, pair)

\* the bulk insert of lines 628-631 as a plain INSERT
RECURSIVE InsertPairs_Plain(_, _, _, _)
InsertPairs_Plain(table, pairs, k, failed_at) ==
    IF k > Len(pairs) \/ k = failed_at THEN table
    ELSE InsertPairs_Plain(Append(table, pairs[k]), pairs, k + 1, failed_at)

\* cursor.executemany of the INSERT OR IGNORE, failing at row failed_at (0: no
\* failure)
RECURSIVE InsertPairs(_, _, _, _)
InsertPairs(table, pairs, k, failed_at) ==
    IF k > Len(pairs) \/ k = failed_at THEN table
    ELSE InsertPairs(InsertOrIgnorePair(table, pairs[k]), pairs, k + 1, failed_at)

\* lines 628-632: the loop is left, the bulk insert and the commit
InsertExpenseTags ==
    /\ pc = "tag_loop"
    /\ exp.i > Len(exp.expenses)
    /\ \E failed_at \in FailurePoints("expense_tags", exp.expense_tags_data) :
         /\ db' = [db EXCEPT !.expense_tags =
                                 InsertPairs(@, exp.expense_tags_data, 1, failed_at)]
         /\ IF failed_at = 0
            THEN /\ disk' = db'
                 /\ pc' = "trading"
                 /\ UNCHANGED status
            ELSE /\ Raise("sqlite3.Error")
                 /\ UNCHANGED disk
    /\ UNCHANGED <<rng, faults, today, args, conn, out, exp, sal, trd>>

(***************************************************************************)
(* clear_existing_data, seed_tags, seed_rules, seed_accounts               *)
(***************************************************************************)
\* the DELETE statements with the expenses deleted first
CLEAR_TABLES_ExpensesFirst ==
    <<"expenses", "expense_tags", "trading_activities", "market_data",
      "accounts", "rules", "tags">>

\* lines 274-280: the tables in the order of the DELETE statements
CLEAR_TABLES ==
    <<"expense_tags", "expenses", "trading_activities", "market_data",
      "accounts", "rules", "tags">>

\* the position of main before the k-th DELETE statement
ClearPc(k) == "clear_" \o CLEAR_TABLES[k]

\* lines 274-280: one DELETE statement
ClearStatement ==
    \E k \in DOMAIN CLEAR_TABLES :
      /\ pc = ClearPc(k)
      /\ db' = [db EXCEPT ![CLEAR_TABLES[k]] = <<>>]
      /\ pc' = IF k < Len(CLEAR_TABLES) THEN ClearPc(k + 1) ELSE "clear_commit"
      /\ UNCHANGED <<rng, faults, today, args, disk, conn, status, out, exp, sal, trd>>

\* line 281: the commit of clear_existing_data
ClearCommit ==
    /\ pc = "clear_commit"
    /\ disk' = db
    /\ pc' = "accounts"
    /\ UNCHANGED <<rng, faults, today, args, db, conn, status, out, exp, sal, trd>>

\* lines 317-325
SeedAccounts ==
    /\ pc = "accounts"
    /\ db' = [db EXCEPT !.accounts = InsertAccounts(@, 1)]
    /\ disk' = db'
    /\ pc' = "tags"
    /\ out' = Append(out, "Seeding accounts")
    /\ UNCHANGED <<rng, faults, today, args, conn, status, exp, sal, trd>>

\* lines 287-291: the INSERT OR IGNORE statements of seed_tags from k on
RECURSIVE InsertTags(_, _)
InsertTags(table, k) ==
    IF k > Len(TAGS) THEN table
    ELSE InsertTags(
             InsertOrIgnoreByName(table, [id |-> 0, name |-> TAGS[k][1],
                                          color |-> TAGS[k][2], style |-> TAGS[k][3]]),
             k + 1)

\* seed_tags without the commit of line 291
SeedTags_Uncommitted ==
    /\ pc = "tags"
    /\ db' = [db EXCEPT !.tags = InsertTags(@, 1)]
    /\ pc' = "rules"
    /\ out' = Append(out, "Seeding tags")
    /\ UNCHANGED <<rng, faults, today, args, disk, conn, status, exp, sal, trd>>

\* lines 284-292
SeedTags ==
    /\ pc = "tags"
    /\ db' = [db EXCEPT !.tags = InsertTags(@, 1)]
    /\ disk' = db'
    /\ pc' = "rules"
    /\ out' = Append(out, "Seeding tags")
    /\ UNCHANGED <<rng, faults, today, args, conn, status, exp, sal, trd>>

\* str(n) of a natural number
RECURSIVE Str(_)
Str(n) ==
    IF n < 10 THEN SubSeq("0123456789", n + 1, n + 1)
    ELSE Str(n \div 10) \o SubSeq("0123456789", (n % 10) + 1, (n % 10) + 1)

\* a lookup that falls back on the name
ResolvedValue_Name(map, action_value) ==
    IF action_value \in DOMAIN map THEN Str(map[action_value]) ELSE action_value

\* str(map.get(action_value, "")), lines 303-306
ResolvedValue(map, action_value) ==
    IF action_value \in DOMAIN map THEN Str(map[action_value]) ELSE ""

\* lines 301-313: the rules from k on; a plain INSERT
RECURSIVE InsertRules(_, _, _, _)
InsertRules(table, k, category_map, tag_map) ==
    IF k > Len(RULES) THEN table
    ELSE LET resolved_value ==
                 IF RULES[k][3] = "assign_category"
                 THEN ResolvedValue(category_map, RULES[k][4])
                 ELSE ResolvedValue(tag_map, RULES[k][4])
         IN  InsertRules(
                 IF resolved_value # ""
                 THEN Append(table, [id |-> NextId(table), name |-> RULES[k][1],
                                     pattern |-> RULES[k][2],
                                     action_type |-> RULES[k][3],
                                     action_value |-> resolved_value])
                 ELSE table,
                 k + 1, category_map, tag_map)

\* lines 295-314
SeedRules ==
    /\ pc = "rules"
    /\ db' = [db EXCEPT !.rules =
                            InsertRules(@, 1, get_category_map(db), get_tag_map(db))]
    /\ disk' = db'
    /\ pc' = "expenses"
    /\ out' = Append(out, "Seeding rules")
    /\ UNCHANGED <<rng, faults, today, args, conn, status, exp, sal, trd>>

(***************************************************************************)
(* main and print_summary                                                  *)
(***************************************************************************)
\* the store when no database file exists at the given path
NoFile == [categories |-> <<>>, accounts |-> <<>>, tags |-> <<>>, rules |-> <<>>,
           expenses |-> <<>>, expense_tags |-> <<>>, trading_activities |-> <<>>,
           market_data |-> <<>>, exists |-> FALSE]

\* lines 933-947: db_path.exists(), the connection and the clear option
MainStart ==
    /\ pc = "main"
    /\ IF ~disk.exists
       THEN /\ out' = Append(out, "Error: Database file not found")
            /\ pc' = "exit"
            /\ status' = "returned"
            /\ UNCHANGED <<conn, db>>
       ELSE /\ out' = Append(out, "Seeding database")
            /\ conn' = "open"
            /\ db' = disk
            /\ pc' = IF args.clear THEN ClearPc(1) ELSE "accounts"
            /\ UNCHANGED status
    /\ UNCHANGED <<rng, faults, today, args, disk, exp, sal, trd>>

\* lines 848-900, called at line 952: the counts the summary prints
PrintSummary ==
    /\ pc = "summary"
    /\ out' = out \o <<"Database seeded successfully!",
                       <<"Accounts:", Len(db.accounts)>>,
                       <<"Categories:", Len(db.categories)>>,
                       <<"Tags:", Len(db.tags)>>,
                       <<"Expenses:", Len(db.expenses)>>,
                       <<"Expense-Tag relations:", Len(db.expense_tags)>>,
                       <<"Rules:", Len(db.rules)>>,
                       <<"Trading activities:", Len(db.trading_activities)>> >>
    /\ pc' = "finally"
    /\ UNCHANGED <<rng, faults, today, args, disk, db, conn, status, exp, sal, trd>>

\* a close that commits the open transaction
StoreAfterClose_Committing(committed, seen) == seen

\* what the database file holds once the connection is closed: the
\* statements of an open transaction are not committed by close()
StoreAfterClose(committed, seen) == committed

\* lines 954-959: conn.close() in the finally clause, then main returns or
\* the exception leaves the script
Finally ==
    /\ pc \in {"finally", "unwind"}
    /\ conn' = "closed"
    /\ disk' = StoreAfterClose(disk, db)
    /\ db' = disk'
    /\ status' = IF pc = "finally" THEN "returned" ELSE status
    /\ pc' = "exit"
    /\ UNCHANGED <<rng, faults, today, args, out, exp, sal, trd>>

\* the exit status of the process: 0 when main returns, 1 when an exception
\* leaves the script
ExitStatus == IF status = "returned" THEN 0 ELSE 1

(***************************************************************************)
(* generate_salary_schedule on its own, for a few (start, end) ranges.     *)
(***************************************************************************)
\* (start_date, end_date, behaviour of the random source)
SalaryRuns ==
    { <<Date(2023, 11, 20), Date(2024, 3, 16), "spread">>,
      <<Date(2024, 2, 20), Date(2024, 4, 1), "spread">>,
      <<Date(2024, 5, 31), Date(2024, 5, 31), "spread">>,
      <<Date(2022, 12, 31), Date(2025, 1, 15), "low">>,
      <<Date(2022, 12, 31), Date(2025, 1, 15), "high">> }

InitSalary ==
    \E run \in SalaryRuns :
      /\ pc = "salary_loop"
      /\ rng = [mode |-> run[3], pinned |-> {}]
      /\ faults = {}
      /\ today = run[2]
      /\ args = [clear |-> FALSE, expenses |-> 0,
                 days |-> ToOrdinal(run[2]) - ToOrdinal(run[1])]
      /\ disk = SeededAccounts
      /\ db = SeededAccounts
      /\ conn = "open"
      /\ status = "running"
      /\ out = <<>>
      /\ exp = IdleExp
      /\ sal = SalaryLocals(run[1], run[2])
      /\ trd = IdleTrd

NextSalary == SalaryStep \/ SalaryReturn

SpecSalary == InitSalary /\ [][NextSalary]_vars

(***************************************************************************)
(* seed_expenses on its own: every run starts at the call of line 950, on  *)
(* a store whose accounts and tags are seeded and that holds no expense.   *)
(***************************************************************************)
\* a categories table the user of the application has edited: two of the
\* default categories are gone
EditedCategories ==
    SelectSeq(DefaultCategories, LAMBDA c : c.name \notin {"Groceries", "Other"})

SeededCatalogs(categories) ==
    [FreshStore(categories) EXCEPT !.accounts = InsertAccounts(<<>>, 1),
                                   !.tags = InsertTags(<<>>, 1)]

SalarySites == {"raise_pct", "deduction", "deduction_pct", "bonus_pct", "bonus_days"}

AccountSites == {"large_purchase", "small_purchase", "note", "noted"}

TagSites == {"category_tag", "flat_tag", "set_order"}

\* the store after the rows of some tags are deleted
WithoutTags(store, names) ==
    [store EXCEPT !.tags = SelectSeq(@, LAMBDA t : t.name \notin names)]

\* (today, --days, --expenses, behaviour of the random source, pinned call
\* sites, categories table, tags the store lacks)
ExpenseRuns ==
    { <<Date(2024, 5, 10), 1, 1, "spread", SalarySites \cup TagSites \cup {"note"},
        DefaultCategories, {}>>,
      <<Date(2024, 5, 20), 7, 1, "spread",
        SalarySites \cup TagSites \cup AccountSites, DefaultCategories, {}>>,
      <<Date(2024, 3, 20), 60, 0, "spread", TagSites \cup {"deduction_pct", "bonus_pct"},
        DefaultCategories, {}>>,
      <<Date(2024, 5, 10), 1, 1, "spread",
        SalarySites \cup AccountSites \cup {"template", "amount_cents", "days_ago"},
        DefaultCategories, {}>>,
      <<Date(2024, 5, 10), 1, 1, "spread",
        SalarySites \cup AccountSites \cup TagSites
            \cup {"template", "amount_cents", "days_ago"},
        EditedCategories, {}>>,
      <<Date(2024, 3, 20), 60, 2, "low", {}, DefaultCategories, {}>>,
      <<Date(2024, 3, 20), 60, 2, "high", {}, DefaultCategories, {}>>,
      <<Date(2024, 3, 20), 60, 2, "low", {}, EditedCategories, {}>>,
      <<Date(2024, 3, 20), 60, 2, "high", {}, EditedCategories, {}>>,
      <<Date(2024, 5, 10), 0, 1, "low", {}, DefaultCategories, {}>>,
      <<Date(2024, 5, 10), 1, 1, "spread",
        SalarySites \cup AccountSites \cup {"template", "amount_cents", "days_ago"},
        DefaultCategories, {"subscription", "impulse"}>> }

InitExpenses ==
    \E run \in ExpenseRuns :
      /\ pc = "expenses"
      /\ rng = [mode |-> run[4], pinned |-> run[5]]
      /\ faults = {}
      /\ today = run[1]
      /\ args = [clear |-> FALSE, expenses |-> run[3], days |-> run[2]]
      /\ disk = WithoutTags(SeededCatalogs(run[6]), run[7])
      /\ db = WithoutTags(SeededCatalogs(run[6]), run[7])
      /\ conn = "open"
      /\ status = "running"
      /\ out = <<>>
      /\ exp = IdleExp
      /\ sal = IdleSal
      /\ trd = IdleTrd

NextExpenses ==
    \/ ExpensesStart
    \/ ExpenseStep
    \/ ExpensesEnd
    \/ SalaryStep
    \/ SalaryReturn
    \/ AppendSalaries
    \/ OtherIncomeStep
    \/ InsertExpenses
    \/ TagStep
    \/ InsertExpenseTags

SpecExpenses == InitExpenses /\ [][NextExpenses]_vars

(***************************************************************************)
(* The whole script: every run starts at main, on no database file, on a   *)
(* database the application has just created, or on one seeded and used    *)
(* before.                                                                 *)
(***************************************************************************)
\* a database seeded earlier that holds a record of every kind
UsedStore ==
    LET catalogs == SeededCatalogs(DefaultCategories)
        account_map == get_account_map(catalogs)
        tag_map == get_tag_map(catalogs)
        day == Date(2024, 1, 5)
    IN  [catalogs EXCEPT
            !.rules = InsertRules(<<>>, 1, get_category_map(catalogs), tag_map),
            !.expenses = InsertAll(<<>>,
                <<ExpenseRow(day, 0 - 1599, "Netflix Subscription",
                             MapGet(get_category_map(catalogs), "Entertainment"),
                             MapGet(account_map, "Credit Card"), NoneVal, NoneVal,
                             "Netflix Subscription"),
                  ExpenseRow(day, 600000, "Salary Deposit", NoneId,
                             MapGet(account_map, "Primary Checking"), NoneVal,
                             "Employer Inc.", NoneVal)>>),
            !.expense_tags = <<[expense_id |-> 1,
                                tag_id |-> MapGet(tag_map, "subscription")]>>,
            !.trading_activities = InsertAll(<<>>,
                <<Activity(day, CASH_SYMBOL, Div100(500000), "DEPOSIT", 100, 0,
                           MapGet(account_map, "Brokerage Account"),
                           <<"Initial deposit">>)>>),
            !.market_data = <<[id |-> 1, symbol |-> "VTI", date |-> IsoFormat(day),
                               close_price_cents |-> 23000]>>]

MainStores ==
    {NoFile, FreshStore(DefaultCategories), FreshStore(EditedCategories), UsedStore}

\* (--expenses, --days)
MainSizes == {<<0, 0>>, <<1, 0>>, <<1, 1>>, <<2, 60>>}

\* the tables whose bulk insert a run may fail
MainFaults == {{}, {"expenses"}, {"expense_tags"}, {"trading_activities"}}

Init ==
    \E store \in MainStores, clear \in BOOLEAN, size \in MainSizes,
       mode \in {"low", "high"}, failing \in MainFaults :
      /\ pc = "main"
      /\ rng = [mode |-> mode, pinned |-> {}]
      /\ faults = failing
      /\ today = Date(2024, 2, 10)
      /\ args = [clear |-> clear, expenses |-> size[1], days |-> size[2]]
      /\ disk = store
      /\ db = store
      /\ conn = "none"
      /\ status = "running"
      /\ out = <<>>
      /\ exp = IdleExp
      /\ sal = IdleSal
      /\ trd = IdleTrd

Next ==
    \/ MainStart
    \/ ClearStatement
    \/ ClearCommit
    \/ SeedAccounts
    \/ SeedTags
    \/ SeedRules
    \/ ExpensesStart
    \/ ExpenseStep
    \/ ExpensesEnd
    \/ SalaryStep
    \/ SalaryReturn
    \/ AppendSalaries
    \/ OtherIncomeStep
    \/ InsertExpenses
    \/ TagStep
    \/ InsertExpenseTags
    \/ TradingStart
    \/ ContributionStep
    \/ ContributionEnd
    \/ TradeStep
    \/ TradesEnd
    \/ DividendStep
    \/ InsertActivities
    \/ PrintSummary
    \/ Finally

Spec == Init /\ [][Next]_vars

(***************************************************************************)
(* Claims about seed_trading_activities (SpecTrading).                     *)
(***************************************************************************)
\* the rows a finished run has persisted
PersistedActivities == db.trading_activities

\* the effect of a row on the position of its (account, symbol) pair, in
\* hundredths of a unit
SignedQuantity(row) ==
    IF row.activity_type = "DEPOSIT"
    THEN row.quantity.units * 100 + row.quantity.hundredths
    ELSE IF row.activity_type = "BUY" THEN row.quantity * 100
    ELSE IF row.activity_type = "SELL" THEN 0 - row.quantity * 100
    ELSE 0

SameHolding(a, b) == a.account_id = b.account_id /\ a.symbol = b.symbol

\* row i is replayed no later than row j: dated earlier, or the same day and
\* generated no later
ReplayedBy(rows, i, j) ==
    \/ IsoLess(rows[i].date, rows[j].date)
    \/ rows[i].date = rows[j].date /\ i <= j

\* the position of row j's pair once the replay by date has applied row j,
\* summed over the rows from i on
RECURSIVE ReplayedPosition(_, _, _)
ReplayedPosition(rows, j, i) ==
    IF i > Len(rows) THEN 0
    ELSE (IF SameHolding(rows[i], rows[j]) /\ ReplayedBy(rows, i, j)
          THEN SignedQuantity(rows[i]) ELSE 0)
         + ReplayedPosition(rows, j, i + 1)

\* C1: replaying the persisted activities of a run in the order of their date
\* field (BUY and DEPOSIT add, SELL subtracts, DIVIDEND leaves unchanged), the
\* running position of every (account, symbol) pair is never negative.
C1_ReplayNeverNegative ==
    pc = "summary" =>
        \A j \in DOMAIN PersistedActivities :
            ReplayedPosition(PersistedActivities, j, 1) >= 0

\* the shares of row j's pair bought less those sold on or before row j's
\* date, summed over the rows from i on
RECURSIVE HeldOnDate(_, _, _)
HeldOnDate(rows, j, i) ==
    IF i > Len(rows) THEN 0
    ELSE (IF /\ SameHolding(rows[i], rows[j])
             /\ rows[i].activity_type \in {"BUY", "SELL"}
             /\ IsoLeq(rows[i].date, rows[j].date)
          THEN SignedQuantity(rows[i]) ELSE 0)
         + HeldOnDate(rows, j, i + 1)

\* C2: every persisted DIVIDEND is dated at a point where the position of its
\* (account, symbol) pair, replaying the BUY and SELL activities dated on or
\* before that date, is strictly positive.
C2_DividendOnlyWhileHeld ==
    pc = "summary" =>
        \A j \in DOMAIN PersistedActivities :
            PersistedActivities[j].activity_type = "DIVIDEND" =>
                HeldOnDate(PersistedActivities, j, 1) > 0

(***************************************************************************)
(* Claims about seed_expenses (SpecExpenses).                              *)
(***************************************************************************)
\* the records of the stream and the rows persisted from it
StreamRecords == Range(exp.expenses_data) \cup Range(db.expenses)

Filled(party) == party # NoneVal /\ party # ""

\* C3: every record of the expense stream has exactly one of payer and payee
\* non-empty: a positive amount comes with a payer and no payee, a negative
\* amount with a non-empty payee and no payer.
C3_PayerXorPayee ==
    \A r \in StreamRecords :
        /\ r.amount_cents # 0
        /\ r.amount_cents > 0 => Filled(r.payer) /\ r.payee = NoneVal
        /\ r.amount_cents < 0 => Filled(r.payee) /\ r.payer = NoneVal

C3_Witness ==
    /\ pc = "tag_loop"
    /\ \E r \in Range(db.expenses) :
         r.amount_cents < 0 /\ r.description = "Target - Groceries" /\ r.payee = "Target"
    /\ \E r \in Range(db.expenses) : r.amount_cents > 0 /\ r.payer = "Employer Inc."

NegativeRows(table) == {k \in DOMAIN table : table[k].amount_cents < 0}

\* the draws of the expense loop whose category name is not in the category
\* map: the records of the stream left without a category identifier
UnresolvedDraws ==
    {k \in NegativeRows(exp.expenses_data) :
        exp.expenses_data[k].category_id = NoneId}

\* C5: a draw whose category name does not resolve is skipped and persists no
\* record: once the stream is persisted, every negative row has a category
\* and the negative rows number --expenses minus the unresolved draws.
C5_UnresolvedDrawSkipped ==
    pc = "tag_loop" =>
        /\ \A k \in NegativeRows(db.expenses) : db.expenses[k].category_id # NoneId
        /\ Cardinality(NegativeRows(db.expenses))
               = args.expenses - Cardinality(UnresolvedDraws)

\* the templates a description belongs to
TemplatesOf(description) ==
    {t \in UNION {Range(EXPENSE_TEMPLATES[c]) : c \in DOMAIN EXPENSE_TEMPLATES} :
        t[1] = description}

\* C9: every expense record has a day offset in 0..days_back-1 and a magnitude
\* within the range of its template; with --days 1 and --expenses 1 the run
\* yields exactly one expense record, dated today.
C9_ExpenseWithinWindowAndRange ==
    /\ \A k \in NegativeRows(exp.expenses_data) :
         LET r == exp.expenses_data[k]
         IN  /\ \E offset \in 0..(args.days - 1) :
                   r.date = IsoFormat(MinusDays(today, offset))
             /\ TemplatesOf(r.description) # {}
             /\ \A t \in TemplatesOf(r.description) :
                   t[2] <= 0 - r.amount_cents /\ 0 - r.amount_cents <= t[3]
    /\ (args.days = 1 /\ args.expenses = 1 /\ pc \in {"tag_loop", "trading"}) =>
         /\ Cardinality(NegativeRows(db.expenses)) = 1
         /\ \A k \in NegativeRows(db.expenses) : db.expenses[k].date = IsoFormat(today)

C9_Witness ==
    /\ pc = "tag_loop"
    /\ args.days = 7
    /\ \E k \in NegativeRows(db.expenses) :
         /\ db.expenses[k].date = IsoFormat(MinusDays(today, 6))
         /\ db.expenses[k].description = "Shell Gas Station"
         /\ db.expenses[k].amount_cents = 0 - 7000

(***************************************************************************)
(* Claims about generate_salary_schedule (SpecSalary).                     *)
(***************************************************************************)
\* C4: over the scan the running monthly base (current_monthly) never
\* decreases, and it changes only in an iteration that enters a new calendar
\* year: a deduction of one month leaves the base of the later months alone.
C4_MonthlyBaseNonDecreasing ==
    [][(pc = "salary_loop" /\ pc' = "salary_loop") =>
          /\ sal'.current_monthly >= sal.current_monthly
          /\ (sal'.current_monthly # sal.current_monthly =>
                  sal'.current_year > sal.current_year)]_vars

\* a raise has been applied after a month of an earlier year was paid with a
\* deduction
C4_Witness ==
    /\ pc = "salary_loop"
    /\ sal.current_monthly > SALARY_CONFIG.base_annual_salary \div 12
    /\ \E i \in DOMAIN sal.salaries :
         /\ sal.salaries[i][3] = "Salary Deposit (after deductions)"
         /\ sal.salaries[i][1].y < sal.current_year

(***************************************************************************)
(* Claims about main and the catalog seeders (Spec).                       *)
(***************************************************************************)
ClearedTables == {"expense_tags", "expenses", "trading_activities", "accounts",
                  "rules", "tags"}

ClearPositions == {ClearPc(k) : k \in DOMAIN CLEAR_TABLES} \cup {"clear_commit"}

\* every association refers to an expense and to a tag of the store
AssociationsResolve(store) ==
    \A pair \in Range(store.expense_tags) :
        /\ \E e \in Range(store.expenses) : e.id = pair.expense_id
        /\ \E t \in Range(store.tags) : t.id = pair.tag_id

\* a statement of clear_existing_data keeps the categories
ClearKeepsCategories ==
    pc \in ClearPositions =>
        db'.categories = disk.categories /\ disk'.categories = disk.categories

\* the commit of clear_existing_data leaves the six tables empty
ClearCommitsEmptyTables ==
    pc = "clear_commit" => \A t \in ClearedTables : db'[t] = <<>> /\ disk'[t] = <<>>

\* C6: clear_existing_data leaves the tables of associations, expenses,
\* trading activities, accounts, rules and tags empty and the categories
\* unchanged, and no association outlives the expense or the tag it refers to.
C6_ClearLeavesOnlyCategories ==
    /\ [](pc \in ClearPositions => AssociationsResolve(db))
    /\ [][ClearKeepsCategories]_vars
    /\ [][ClearCommitsEmptyTables]_vars

C6_Witness ==
    /\ pc = "clear_commit"
    /\ \A t \in ClearedTables : db[t] = <<>> /\ disk[t] # <<>>
    /\ db.categories = DefaultCategories

CatalogNames(catalog) == {catalog[k][1] : k \in DOMAIN catalog}

\* the store already holds the seeded catalog
HoldsCatalog(store) ==
    /\ CatalogNames(ACCOUNTS) \subseteq {r.name : r \in Range(store.accounts)}
    /\ CatalogNames(TAGS) \subseteq {r.name : r \in Range(store.tags)}
    /\ CatalogNames(RULES) \subseteq {r.name : r \in Range(store.rules)}

NoDuplicateName(table) ==
    \A i, j \in DOMAIN table : table[i].name = table[j].name => i = j

\* a catalog seeder on a store that holds the catalog adds no row
SeederAddsNothing ==
    (pc \in {"accounts", "tags", "rules"} /\ ~args.clear /\ HoldsCatalog(db)) =>
        \A t \in {"accounts", "tags", "rules"} :
            Len(db'[t]) = Len(db[t]) /\ NoDuplicateName(db'[t])

\* C7: seeding the catalogs again on a store that holds them, without clear,
\* keeps the number of accounts, tags and rules and duplicates no name.
C7_CatalogSeedingIdempotent == [][SeederAddsNothing]_vars

PhaseMessages ==
    {"Seeding database", "Seeding accounts", "Seeding tags", "Seeding rules",
     "Seeding expenses", "Seeding trading activities",
     "Database seeded successfully!"}

\* C8: on a store location that does not exist main reports an error, ends
\* with a nonzero exit status, opens no connection, creates no file and runs
\* neither clear nor any seeding phase.
C8_MissingStoreIsAnError ==
    (pc = "exit" /\ ~disk.exists) =>
        /\ out = <<"Error: Database file not found">>
        /\ ExitStatus # 0
        /\ conn = "none"
        /\ disk = NoFile
        /\ \A k \in DOMAIN out : out[k] \notin PhaseMessages

\* the rows a phase committed are in the store: the stream of seed_expenses
\* is the tail of the expenses table
ExpensesCommitted ==
    /\ Len(disk.expenses) >= Len(exp.expenses_data)
    /\ \A k \in DOMAIN exp.expenses_data :
         disk.expenses[Len(disk.expenses) - Len(exp.expenses_data) + k]
             = [exp.expenses_data[k] EXCEPT
                    !.id = disk.expenses[Len(disk.expenses)
                                           - Len(exp.expenses_data) + k].id]

AssociationsCommitted ==
    \A pair \in Range(exp.expense_tags_data) : pair \in Range(disk.expense_tags)

CatalogsCommitted ==
    /\ CatalogNames(ACCOUNTS) \subseteq {r.name : r \in Range(disk.accounts)}
    /\ CatalogNames(TAGS) \subseteq {r.name : r \in Range(disk.tags)}
    /\ disk.rules # <<>>

\* the step at which a bulk insert fails commits and prints nothing
FailureCommitsNothing ==
    (pc # "unwind" /\ pc' = "unwind" /\ status' = "sqlite3.Error") =>
        disk' = disk /\ out' = out

\* the only step of an aborted run closes the connection
AbortOnlyCloses ==
    pc = "unwind" => pc' = "exit" /\ disk' = disk /\ db' = disk /\ out' = out

NeverPrinted(message) == \A k \in DOMAIN out : out[k] # message

\* what the store holds after a run that a failed bulk insert aborted
AbortedStore ==
    /\ db = disk
    /\ conn = "closed"
    /\ ExitStatus # 0
    /\ NeverPrinted("Database seeded successfully!")
    /\ CatalogsCommitted
    /\ "expenses" \in faults =>
           /\ NeverPrinted("Seeding trading activities")
           /\ disk.expenses \in {<<>>, UsedStore.expenses}
           /\ disk.expense_tags \in {<<>>, UsedStore.expense_tags}
    /\ "expense_tags" \in faults =>
           /\ NeverPrinted("Seeding trading activities")
           /\ ExpensesCommitted
           /\ disk.expense_tags \in {<<>>, UsedStore.expense_tags}
    /\ "trading_activities" \in faults =>
           /\ ExpensesCommitted
           /\ AssociationsCommitted
           /\ disk.trading_activities \in {<<>>, UsedStore.trading_activities}

\* C10: a bulk insert that fails aborts the run: no later phase and no
\* summary run, and the store holds what the last commit left, the rows of
\* the earlier phases and no row of the failed insert.
C10_FailedInsertAborts ==
    /\ [][FailureCommitsNothing]_vars
    /\ [][AbortOnlyCloses]_vars
    /\ []((pc = "exit" /\ status = "sqlite3.Error") => AbortedStore)

C10_Witness ==
    /\ pc = "unwind"
    /\ status = "sqlite3.Error"
    /\ db.trading_activities # disk.trading_activities
    /\ disk.expenses # <<>>
    /\ disk.expense_tags # <<>>

\* the map a rule is resolved in, lines 303-306
RuleMap(store, k) ==
    IF RULES[k][3] = "assign_category" THEN get_category_map(store)
    ELSE get_tag_map(store)

ResolvableRules(store) ==
    {k \in DOMAIN RULES : RULES[k][4] \in DOMAIN RuleMap(store, k)}

\* seed_rules inserts the resolvable rules, in catalog order and with the
\* identifier as a string, inserts no other rule and raises nothing
RulesStepSkipsUnresolved ==
    pc = "rules" =>
        LET added == SubSeq(db'.rules, Len(db.rules) + 1, Len(db'.rules))
            resolvable == ResolvableRules(db)
        IN  /\ pc' = "expenses" /\ status' = status
            /\ SubSeq(db'.rules, 1, Len(db.rules)) = db.rules
            /\ Len(added) = Cardinality(resolvable)
            /\ \A k \in resolvable :
                 \E i \in DOMAIN added :
                    /\ added[i].name = RULES[k][1]
                    /\ added[i].action_value = Str(RuleMap(db, k)[RULES[k][4]])
                    /\ added[i].action_value # RULES[k][4]
                    /\ i = Cardinality({j \in resolvable : j <= k})

\* C11: a rule whose target name is in neither map is not inserted and raises
\* no error, the other rules of the catalog are inserted, and an inserted rule
\* stores the identifier its target resolved to, never the name.
C11_UnresolvedRuleSkipped == [][RulesStepSkipsUnresolved]_vars

C11_Witness ==
    /\ pc = "expenses"
    /\ status = "running"
    /\ Len(db.rules) = Len(RULES) - 1
    /\ \A r \in Range(db.rules) : r.name # "Grocery Stores"
    /\ \E r \in Range(db.rules) : r.name = "Pharmacy" /\ r.action_value = "13"

(***************************************************************************)
(* Claims about the tag pass of seed_expenses (SpecExpenses).              *)
(***************************************************************************)
TagMapIds == {exp.tag_map[n] : n \in DOMAIN exp.tag_map}

\* one iteration of the tag pass appends, for the record it visits, only
\* pairs whose tag identifier comes from the tag map, appends the pair of
\* every forced tag the map holds, and raises nothing
TagStepOmitsUnknownTags ==
    (pc = "tag_loop" /\ exp.i <= Len(exp.expenses)) =>
        LET expense == exp.expenses[exp.i]
            added == SubSeq(exp'.expense_tags_data, Len(exp.expense_tags_data) + 1,
                            Len(exp'.expense_tags_data))
        IN  /\ status' = status /\ pc' = pc
            /\ \A pair \in Range(added) :
                 pair.expense_id = expense.id /\ pair.tag_id \in TagMapIds
            /\ \A n \in PatternTags(expense.description) :
                 (n \in DOMAIN exp.tag_map) <=>
                     (\E pair \in Range(added) :
                         n \in DOMAIN exp.tag_map /\ pair.tag_id = exp.tag_map[n])

\* C12: in the tag pass a candidate tag whose name is not in the tag map
\* yields no association and no error, and every association inserted refers
\* to an identifier of the tag map.
C12_UnknownTagOmitted ==
    /\ [][TagStepOmitsUnknownTags]_vars
    /\ [](\A pair \in Range(db.expense_tags) : pair.tag_id \in TagMapIds)

C12_Witness ==
    /\ pc = "trading"
    /\ status = "running"
    /\ "subscription" \notin DOMAIN exp.tag_map
    /\ exp.expenses[1].description = "Netflix Subscription"
    /\ db.expense_tags = <<[expense_id |-> 1, tag_id |-> exp.tag_map["recurring"]]>>

(***************************************************************************)
(* Claims about the trade loop of seed_trading_activities (SpecTrading).   *)
(***************************************************************************)
\* an iteration of the trade loop
TradeIteration == pc = "trd_trades" /\ trd'.i = trd.i + 1

\* an iteration of the trade loop that appends an activity
TradeEmitted ==
    TradeIteration /\ Len(trd'.activities) = Len(trd.activities) + 1

LastActivity(locals) == locals.activities[Len(locals.activities)]

PositionKey(row) == <<row.account_id, row.symbol>>

\* a SELL is for 1 up to the position tracked when it is generated
SellWithinPosition ==
    (TradeEmitted /\ LastActivity(trd').activity_type = "SELL") =>
        /\ 1 <= LastActivity(trd').quantity
        /\ LastActivity(trd').quantity
               <= PositionsGet(trd.positions, PositionKey(LastActivity(trd')))

\* C13: during the trade loop every entry of the positions map is
\* non-negative, and every SELL has a quantity between 1 and the position
\* tracked for its pair when it is generated.
C13_TrackedPositionNeverNegative ==
    /\ [](\A key \in DOMAIN trd.positions : trd.positions[key] >= 0)
    /\ [][SellWithinPosition]_vars

C13_Witness ==
    /\ pc = "trd_trades"
    /\ trd.activities # <<>>
    /\ LastActivity(trd).activity_type = "SELL"
    /\ LastActivity(trd).quantity = 5
    /\ trd.positions[PositionKey(LastActivity(trd))] = 0

\* the event of an iteration follows the position tracked for its pair
TradeFollowsPosition ==
    TradeEmitted =>
        LET row == LastActivity(trd')
            key == PositionKey(row)
            held == PositionsGet(trd.positions, key)
        IN  /\ row.activity_type \in {"BUY", "SELL"}
            /\ held < 5 => row.activity_type = "BUY"
            /\ row.activity_type = "SELL" => held >= 5
            /\ row.activity_type = "BUY" =>
                   /\ row.quantity \in 1..10
                   /\ trd'.positions[key] = held + row.quantity
            /\ row.activity_type = "SELL" =>
                   /\ 1 <= row.quantity /\ row.quantity <= held /\ row.quantity <= 5
                   /\ trd'.positions[key] = held - row.quantity
            /\ \A other \in DOMAIN trd.positions \ {key} :
                   trd'.positions[other] = trd.positions[other]

TradeRows(rows) == {k \in DOMAIN rows : rows[k].activity_type \in {"BUY", "SELL"}}

\* an iteration of the trade loop never drops its event
IterationEmitsTrade ==
    TradeIteration =>
        TradeEmitted /\ LastActivity(trd').activity_type \in {"BUY", "SELL"}

C16_RetirementAccountTradesEtfs ==
    \A row \in Range(trd.activities) \cup Range(db.trading_activities) :
        row.activity_type \in {"BUY", "SELL"} =>
            /\ row.account_id \in {trd.ira_id, trd.brokerage_id}
            /\ row.account_id = trd.ira_id =>
                   row.symbol \in {"VTI", "VOO", "BND", "SCHD", "QQQ"}
            /\ row.account_id = trd.brokerage_id =>
                   row.symbol \in {TRADING_SYMBOLS[k][1] : k \in DOMAIN TRADING_SYMBOLS}

C16_Witness ==
    /\ Cardinality({TRADING_SYMBOLS[k][1] : k \in DOMAIN TRADING_SYMBOLS}) = 10
    /\ \E row \in Range(trd.activities) :
         /\ row.activity_type = "BUY"
         /\ row.account_id = trd.brokerage_id
         /\ row.symbol = "NVDA"
    /\ \E row \in Range(trd.activities) :
         /\ row.activity_type = "BUY"
         /\ row.account_id = trd.ira_id
         /\ row.symbol = "BND"

(***************************************************************************)
(* Claims about the schedule of generate_salary_schedule (SpecSalary).     *)
(***************************************************************************)
\* the arguments of the call: seed_expenses passes today - days_back and today
ScheduleStart == MinusDays(today, args.days)

IsBaseEvent(event) ==
    event[3] \in {"Salary Deposit", "Salary Deposit (after deductions)"}

BaseEvents == SelectSeq(sal.salaries, IsBaseEvent)

\* the months counted from year 0
MonthNumber(date) == date.y * 12 + date.m

\* the 15th of the month of that number
FifteenthOf(number) == Date((number - 1) \div 12, ((number - 1) % 12) + 1, 15)

\* C17: the schedule returned holds exactly one base salary event for every
\* calendar month from the month of start_date through the month of end_date,
\* dated the 15th of its month, in strictly increasing order of date.
C17_OneBaseEventPerMonth ==
    pc = "salary_return" =>
        /\ Len(BaseEvents)
               = MonthNumber(sal.end_date) - MonthNumber(ScheduleStart) + 1
        /\ \A k \in DOMAIN BaseEvents :
               BaseEvents[k][1] = FifteenthOf(MonthNumber(ScheduleStart) + k - 1)

\* the events an iteration of the scan appends
AppendedEvents ==
    SubSeq(sal'.salaries, Len(sal.salaries) + 1, Len(sal'.salaries))

\* an iteration appends the base event of its month and, in March and
\* December alone, a bonus right after it
BonusFollowsBase ==
    (pc = "salary_loop" /\ sal'.salaries # sal.salaries) =>
        LET base == AppendedEvents[1]
            bonus == AppendedEvents[2]
            monthly == sal'.current_monthly
        IN  /\ SubSeq(sal'.salaries, 1, Len(sal.salaries)) = sal.salaries
            /\ IsBaseEvent(base)
            /\ base[1] = sal.current_date
            /\ Len(AppendedEvents) = IF base[1].m \in {3, 12} THEN 2 ELSE 1
            /\ Len(AppendedEvents) = 2 =>
                 /\ \E days \in 1..5 : bonus[1] = PlusDays(base[1], days)
                 /\ bonus[2] * 100 <= monthly * 20
                 /\ bonus[2] * 100 > monthly * 5 - 100
                 /\ bonus[3] = IF base[1].m = 3 THEN "Performance Bonus"
                               ELSE "Year-End Bonus"

\* C18: a bonus event is emitted for the base events of March and December
\* and for no other month, right after its base event, dated 1 to 5 days
\* later, sized between 5 and 20 percent of the month's base monthly amount
\* before deduction, labeled by the month.
C18_BonusInMarchAndDecember == [][BonusFollowsBase]_vars

\* a December paid with a deduction, its bonus the full 20 percent of the
\* monthly base
C18_Witness ==
    /\ pc = "salary_loop"
    /\ Len(sal.salaries) >= 2
    /\ LET base == sal.salaries[Len(sal.salaries) - 1]
           bonus == sal.salaries[Len(sal.salaries)]
       IN  /\ base[3] = "Salary Deposit (after deductions)"
           /\ base[1].m = 12
           /\ base[2] < sal.current_monthly
           /\ bonus[3] = "Year-End Bonus"
           /\ bonus[1] = PlusDays(base[1], 5)
           /\ bonus[2] * 100 > base[2] * 20

\* the base events that open a calendar year after the start year
YearOpenings ==
    {k \in DOMAIN BaseEvents :
        /\ BaseEvents[k][1].y > ScheduleStart.y
        /\ \A j \in 1..(k - 1) : BaseEvents[j][1].y < BaseEvents[k][1].y}

\* an iteration raises the monthly base exactly when it emits the January
\* event of a year after the start year, by 2 to 5 percent
RaiseAtJanuaryOnly ==
    (pc = "salary_loop" /\ sal'.salaries # sal.salaries) =>
        LET event == AppendedEvents[1]
            raised == /\ sal'.current_monthly > sal.current_monthly
                      /\ sal'.current_monthly * 100 <= sal.current_monthly * 105
                      /\ sal'.current_monthly * 100 > sal.current_monthly * 102 - 100
                      /\ sal'.current_year = sal.current_year + 1
                      /\ sal'.current_year = event[1].y
            kept == /\ sal'.current_monthly = sal.current_monthly
                    /\ sal'.current_year = sal.current_year
        IN  IF event[1].m = 1 /\ event[1].y > ScheduleStart.y THEN raised ELSE kept

\* C19: the raise is applied once for each calendar year after the start
\* year, at the January event of that year and at no other month: a schedule
\* spanning k year changes has k raises.
C19_OneRaisePerYearAtJanuary ==
    /\ [][RaiseAtJanuaryOnly]_vars
    /\ [](pc \in {"salary_loop", "salary_return"} =>
            /\ sal.current_year - ScheduleStart.y = Cardinality(YearOpenings)
            /\ \A k \in YearOpenings : BaseEvents[k][1].m = 1)

C19_Witness ==
    /\ pc = "salary_return"
    /\ Cardinality(YearOpenings) = 3
    /\ sal.current_year = ScheduleStart.y + 3
    /\ sal.current_monthly
           = RaisedMonthly(RaisedMonthly(RaisedMonthly(
                 SALARY_CONFIG.base_annual_salary \div 12, 5), 5), 5)

(***************************************************************************)
(* Claims about the accounts of the expenses (SpecExpenses).               *)
(***************************************************************************)
\* the categories whose templates hold a description
CategoriesOf(description) ==
    {c \in DOMAIN EXPENSE_TEMPLATES :
        \E t \in Range(EXPENSE_TEMPLATES[c]) : t[1] = description}

\* the name of the account of that identifier
AccountNames(account_id) ==
    {a.name : a \in {r \in Range(db.accounts) : r.id = account_id}}

\* C20: an expense of the categories Rent/Mortgage, Utilities or Insurance is
\* booked on Primary Checking whatever its amount; every other expense is
\* booked on Primary Checking or on Credit Card, never on Savings Account.
C20_ExpenseAccountByCategory ==
    \A r \in {e \in StreamRecords : e.amount_cents < 0} :
        /\ CategoriesOf(r.description) # {}
        /\ AccountNames(r.account_id) \subseteq {"Primary Checking", "Credit Card"}
        /\ AccountNames(r.account_id) # {}
        /\ CategoriesOf(r.description) \subseteq
               {"Rent/Mortgage", "Utilities", "Insurance"} =>
                   AccountNames(r.account_id) = {"Primary Checking"}

C20_Witness ==
    /\ pc = "tag_loop"
    /\ \E r \in Range(db.expenses) :
         /\ r.description = "Mortgage Payment"
         /\ r.amount_cents = 0 - 350000
         /\ AccountNames(r.account_id) = {"Primary Checking"}

(***************************************************************************)
(* Claims about the income records of seed_expenses (SpecExpenses).        *)
(***************************************************************************)
\* the other-income records of the stream
OtherIncomeRows ==
    {k \in DOMAIN exp.expenses_data :
        \E j \in DOMAIN other_income :
            exp.expenses_data[k].description = other_income[j][1]}

\* C21: seed_expenses generates days_back // 60 other-income records, each
\* with a positive amount in the range of its template and a date in
\* [today - days_back, today]; "Tax Refund" goes to the Savings Account, every
\* other one to Primary Checking.
C21_OtherIncomeRecords ==
    /\ pc = "income_loop" => Cardinality(OtherIncomeRows) = exp.i
    /\ pc \in {"tag_loop", "trading"} =>
           Cardinality(OtherIncomeRows) = args.days \div 60
    /\ \A k \in OtherIncomeRows :
         LET r == exp.expenses_data[k]
         IN  /\ r.amount_cents > 0
             /\ \E j \in DOMAIN other_income :
                   /\ other_income[j][1] = r.description
                   /\ other_income[j][2] <= r.amount_cents
                   /\ r.amount_cents <= other_income[j][3]
                   /\ r.payer = other_income[j][4]
             /\ \E offset \in 0..args.days :
                   r.date = IsoFormat(MinusDays(today, offset))
             /\ AccountNames(r.account_id)
                    = IF r.description = "Tax Refund" THEN {"Savings Account"}
                      ELSE {"Primary Checking"}

C21_Witness ==
    /\ pc = "tag_loop"
    /\ args.days = 60
    /\ Cardinality(OtherIncomeRows) = 1
    /\ \E r \in Range(db.expenses) :
         /\ r.description = "Tax Refund"
         /\ r.amount_cents = 150000
         /\ r.date = IsoFormat(MinusDays(today, 60))
         /\ AccountNames(r.account_id) = {"Savings Account"}

\* ---------------------------------------------------------------------------
\* C22: contributions of seed_trading_activities, lines 654-715
\* ---------------------------------------------------------------------------

\* the months since year 0 of an ISO date <<y, m, d>>
IsoMonthNumber(iso) == iso[1] * 12 + iso[2]

\* the activities the contribution loop appended for an account with a note
ContributionRows(account_id, note) ==
    {k \in DOMAIN trd.activities :
        /\ trd.activities[k].activity_type = "DEPOSIT"
        /\ trd.activities[k].account_id = account_id
        /\ trd.activities[k].notes = <<note>>
        /\ k > 2}

\* the contribution loop has been left without an error
ContributionsDone == pc \in {"trd_trades", "trd_dividends"}

\* C22: once the contribution loop is over, every calendar month from the
\* month of the start date through the month of today has exactly one
\* brokerage "Monthly investment contribution" DEPOSIT, the retirement
\* account has one DEPOSIT contribution for each January step other than the
\* start date, and every DEPOSIT uses the cash symbol, unit price 100, fee 0
C22_MonthlyContributions ==
    ContributionsDone =>
        LET monthly == ContributionRows(trd.brokerage_id, "Monthly investment contribution")
            annual == ContributionRows(trd.ira_id, "Annual IRA contribution")
            january == {k \in monthly :
                           /\ trd.activities[k].date[2] = 1
                           /\ trd.activities[k].date # IsoFormat(trd.start_date)}
        IN  /\ \A n \in MonthNumber(trd.start_date)..MonthNumber(today) :
                  Cardinality({k \in monthly :
                      IsoMonthNumber(trd.activities[k].date) = n}) = 1
            /\ Cardinality(annual) = Cardinality(january)
            /\ \A k \in DOMAIN trd.activities :
                  trd.activities[k].activity_type = "DEPOSIT" =>
                      /\ trd.activities[k].symbol = CASH_SYMBOL
                      /\ trd.activities[k].unit_price_cents = 100
                      /\ trd.activities[k].fee_cents = 0

\* ---------------------------------------------------------------------------
\* C23: the dividend pass of seed_trading_activities, lines 797-834
\* ---------------------------------------------------------------------------

\* the rows a step appends to the activities
AppendedActivities == (Len(trd.activities) + 1)..Len(trd'.activities)

DividendRowAllowed(row) ==
    /\ row.activity_type = "DIVIDEND"
    /\ row.date = IsoFormat(trd.current_date)
    /\ row.date[2] \in {3, 6, 9, 12}
    /\ row.symbol \in {"AAPL", "MSFT", "SCHD", "VTI", "VOO"}
    /\ row.account_id \in {trd.brokerage_id, trd.ira_id}
    /\ PositionsGet(trd.positions, PositionKey(row)) > 0

DividendPassEffect ==
    pc = "trd_dividends" =>
        /\ trd'.positions = trd.positions
        /\ SubSeq(trd'.activities, 1, Len(trd.activities)) = trd.activities
        /\ \A k \in AppendedActivities : DividendRowAllowed(trd'.activities[k])

\* C23: a step of the dividend pass leaves the positions map unchanged and
\* appends only DIVIDEND activities, dated at a scan date of month 3, 6, 9 or
\* 12, for a symbol of the dividend list and an (account, symbol) pair whose
\* tracked position is greater than zero
C23_DividendPass == [][DividendPassEffect]_vars

\* a March scan date has paid a dividend on a held pair while another pair of
\* the dividend list is not held and got none
C23_Witness ==
    /\ pc = "trd_dividends"
    /\ trd.current_date.m = 4
    /\ \E k \in DOMAIN trd.activities :
          /\ trd.activities[k].activity_type = "DIVIDEND"
          /\ trd.activities[k].date[2] = 3
          /\ PositionsGet(trd.positions, PositionKey(trd.activities[k])) > 0
    /\ \E key \in Range(DividendKeys(trd.brokerage_id, trd.ira_id)) :
          /\ PositionsGet(trd.positions, key) = 0
          /\ \A k \in DOMAIN trd.activities :
                trd.activities[k].activity_type = "DIVIDEND" =>
                    PositionKey(trd.activities[k]) # key

\* ---------------------------------------------------------------------------
\* C24: the pattern tags of the tag pass, lines 589-626
\* ---------------------------------------------------------------------------

\* the persisted record is associated with the tag of that name
Tagged(expense, tag_name) ==
    \E pair \in Range(db.expense_tags) :
        /\ pair.expense_id = expense.id
        /\ pair.tag_id = exp.tag_map[tag_name]

MentionsSubscription(expense) ==
    \E word \in {"netflix", "spotify", "disney", "hbo", "subscription"} :
        Contains(Lower(expense.description), word)

MentionsGift(expense) == Contains(Lower(expense.description), "gift")

\* C24: after the tag pass, with the tags "subscription", "recurring" and
\* "gift" in the tag map, every record whose lower-cased description contains
\* netflix, spotify, disney, hbo or subscription is associated with both
\* "subscription" and "recurring", and every record whose description
\* contains "gift" with "gift", whatever the random draws were
C24_PatternTagsForced ==
    (pc = "trading" /\ {"subscription", "recurring", "gift"} \subseteq DOMAIN exp.tag_map) =>
        \A expense \in Range(db.expenses) :
            /\ MentionsSubscription(expense) =>
                   Tagged(expense, "subscription") /\ Tagged(expense, "recurring")
            /\ MentionsGift(expense) => Tagged(expense, "gift")

\* no tag was drawn for a record that mentions a subscription: it holds the
\* two forced tags and no other
C24_Witness ==
    /\ pc = "trading"
    /\ {"subscription", "recurring", "gift"} \subseteq DOMAIN exp.tag_map
    /\ \E expense \in Range(db.expenses) :
          /\ MentionsSubscription(expense)
          /\ Tagged(expense, "subscription")
          /\ Tagged(expense, "recurring")
          /\ Cardinality({pair \in Range(db.expense_tags) :
                             pair.expense_id = expense.id}) = 2

\* ---------------------------------------------------------------------------
\* C25: the dates of the records seed_expenses persists, lines 340-382 and
\* 514-533
\* ---------------------------------------------------------------------------

\* C25: every record seed_expenses has persisted, salary, bonus and other
\* income included, is dated from today - days_back through today
C25_RecordsWithinWindow ==
    pc \in {"tag_loop", "trading"} =>
        \A r \in Range(db.expenses) :
            /\ IsoLeq(IsoFormat(MinusDays(today, args.days)), r.date)
            /\ IsoLeq(r.date, IsoFormat(today))

\* ---------------------------------------------------------------------------
\* C26: the order of the phases of main, lines 943-955 and 570-584
\* ---------------------------------------------------------------------------

\* the phase a position of the script belongs to: 1 clear, 2 accounts, 3 tags,
\* 4 rules, 5 expenses, 6 trading activities, 7 summary
Phase(position) ==
    CASE position = "main" -> 0
      [] position \in {ClearPc(k) : k \in DOMAIN CLEAR_TABLES} \cup {"clear_commit"} -> 1
      [] position = "accounts" -> 2
      [] position = "tags" -> 3
      [] position = "rules" -> 4
      [] position \in {"expenses", "exp_loop", "salary_loop", "salary_return",
                       "income_loop", "tag_loop"} -> 5
      [] position \in {"trading", "trd_contrib", "trd_trades", "trd_dividends"} -> 6
      [] position = "summary" -> 7
      [] OTHER -> 8

\* a step that ends a phase without an error begins the next phase, with
\* everything the connection has written committed
PhasesInOrder ==
    /\ Phase(pc') >= Phase(pc)
    /\ (pc = "main" /\ disk.exists) => Phase(pc') = IF args.clear THEN 1 ELSE 2
    /\ (Phase(pc) \in 1..7 /\ Phase(pc') # Phase(pc) /\ pc' # "unwind") =>
           /\ Phase(pc') = Phase(pc) + 1
           /\ Phase(pc') <= 7 => disk' = db'

\* the names of the rows of a table
RowNames(table) == {table[k].name : k \in DOMAIN table}

\* C26: on an existing store the phases run in the order clear (only when
\* requested), accounts, tags, rules, expenses, trading activities, summary,
\* and each has committed when the next begins: the tags are committed when
\* the rules are seeded, the accounts when expenses and trades are generated,
\* and the expense rows when the tag pass reads their identifiers
C26_PhaseOrder ==
    /\ [][PhasesInOrder]_vars
    /\ [](pc = "rules" => {TAGS[k][1] : k \in DOMAIN TAGS} \subseteq RowNames(disk.tags))
    /\ [](Phase(pc) \in {5, 6} =>
              {ACCOUNTS[k][1] : k \in DOMAIN ACCOUNTS} \subseteq RowNames(disk.accounts))
    /\ [](pc = "tag_loop" =>
              /\ disk.expenses = db.expenses
              /\ \A k \in DOMAIN exp.expenses :
                    \E row \in Range(disk.expenses) : row.id = exp.expenses[k].id)

\* a run with --clear has reached the summary with expenses, associations
\* and trading activities committed
C26_Witness ==
    /\ pc = "summary"
    /\ args.clear
    /\ disk = db
    /\ disk.expenses # <<>>
    /\ disk.expense_tags # <<>>
    /\ disk.trading_activities # <<>>
    /\ disk.rules # <<>>

\* ---------------------------------------------------------------------------
\* C27: the expense-tag associations over several runs, lines 579-632
\* ---------------------------------------------------------------------------

\* no (expense, tag) pair is held twice
PairsUnique(table) ==
    \A i, j \in DOMAIN table :
        (table[i].expense_id = table[j].expense_id /\ table[i].tag_id = table[j].tag_id)
            => i = j

\* C27: the table of associations holds every (expense, tag) pair at most
\* once, in a first run and in a run on a store seeded before, with or
\* without --clear, while the tag pass visits every row of the expenses
\* table, income rows and rows of earlier runs included
C27_AssociationsUnique ==
    /\ PairsUnique(db.expense_tags)
    /\ PairsUnique(disk.expense_tags)
    /\ pc = "tag_loop" =>
           {exp.expenses[k].id : k \in DOMAIN exp.expenses}
               = {db.expenses[k].id : k \in DOMAIN db.expenses}

\* a run without --clear on the store seeded before has generated the pair
\* the store already held, and the table holds it once among other pairs
C27_Witness ==
    /\ pc = "trading"
    /\ ~args.clear
    /\ \E pair \in Range(exp.expense_tags_data) : pair \in Range(UsedStore.expense_tags)
    /\ \E k \in DOMAIN exp.expenses : exp.expenses[k].description = "Salary Deposit"
    /\ Len(db.expense_tags) > Len(UsedStore.expense_tags)
    /\ PairsUnique(db.expense_tags)

\* ---------------------------------------------------------------------------
\* C28: the month-stepping loops of seed_trading_activities, lines 675-715
\* and 800-834
\* ---------------------------------------------------------------------------

\* a step of the contribution loop or of the dividend loop raises nothing,
\* and while the scan date is not after today it moves to the same day of
\* the next month
MonthStepAdvances ==
    (pc \in {"trd_contrib", "trd_dividends"} /\ DateLeq(trd.current_date, today)) =>
        /\ pc' = pc
        /\ status' = status
        /\ trd'.current_date = NextMonth(trd.current_date)
        /\ ValidDate(trd'.current_date)

\* C28: for every start date, those of day-of-month 29, 30 or 31 included,
\* the contribution loop and the dividend loop advance month by month
\* without an error
C28_MonthLoopsNeverRaise == [][MonthStepAdvances]_vars

\* ---------------------------------------------------------------------------
\* C29: the quantity of a dividend, lines 797-828 and 719-724
\* ---------------------------------------------------------------------------

DividendRowsOf(rows) == {k \in DOMAIN rows : rows[k].activity_type = "DIVIDEND"}

\* C29: a DIVIDEND activity exists only once the trade loop is over, its
\* quantity is the position tracked for its (account, symbol) pair at the
\* end of the trade loop, and the dividends of one pair all carry the same
\* quantity
C29_DividendQuantityIsFinalPosition ==
    /\ DividendRowsOf(trd.activities) # {} => pc \notin {"trd_contrib", "trd_trades"}
    /\ \A k \in DividendRowsOf(trd.activities) :
          /\ PositionKey(trd.activities[k]) \in DOMAIN trd.positions
          /\ trd.activities[k].quantity = trd.positions[PositionKey(trd.activities[k])]
    /\ \A k, l \in DividendRowsOf(trd.activities) :
          PositionKey(trd.activities[k]) = PositionKey(trd.activities[l])
              => trd.activities[k].quantity = trd.activities[l].quantity

\* a pair was paid a dividend in December and another in March, both on the
\* position the trade loop left
C29_Witness ==
    \E k, l \in DividendRowsOf(trd.activities) :
        /\ PositionKey(trd.activities[k]) = PositionKey(trd.activities[l])
        /\ trd.activities[k].date[2] = 12
        /\ trd.activities[l].date[2] = 3
        /\ trd.activities[k].quantity = trd.activities[l].quantity
        /\ trd.activities[k].quantity = trd.positions[PositionKey(trd.activities[k])]
        /\ \E t \in TradeRows(trd.activities) :
              /\ PositionKey(trd.activities[t]) = PositionKey(trd.activities[k])
              /\ IsoLeq(trd.activities[k].date, trd.activities[t].date)
              /\ ~IsoLeq(trd.activities[t].date, trd.activities[k].date)

\* ---------------------------------------------------------------------------
\* C30: the day offset of seed_expenses, lines 466-468 and 943-955
\* ---------------------------------------------------------------------------

\* an iteration of the expense loop: with days_back >= 1 it raises nothing
\* and dates the record it appends 0 to days_back - 1 days before today; with
\* days_back = 0 it raises at the day offset and appends and writes nothing
DayOffsetStep ==
    (pc = "exp_loop" /\ exp.i < args.expenses) =>
        IF args.days >= 1
        THEN /\ pc' = pc
             /\ status' = status
             /\ \A k \in (Len(exp.expenses_data) + 1)..Len(exp'.expenses_data) :
                   \E offset \in 0..(args.days - 1) :
                       exp'.expenses_data[k].date = IsoFormat(MinusDays(today, offset))
        ELSE /\ pc' = "unwind"
             /\ status' = "ZeroDivisionError"
             /\ exp.i = 0
             /\ exp'.expenses_data = <<>>
             /\ db' = db
             /\ disk' = disk

\* with days_back = 0 and num_expenses >= 1 no step after the clear changes
\* the expenses table
ExpensesTableKept ==
    (args.days = 0 /\ args.expenses >= 1 /\ Phase(pc) >= 2) =>
        db'.expenses = db.expenses /\ disk'.expenses = disk.expenses

\* C30: seed_expenses computes a day offset in 0..days_back-1 whenever
\* days_back >= 1; with days_back = 0 and num_expenses >= 1 the run aborts
\* with ZeroDivisionError at the first day offset, no expense row is
\* inserted, and the accounts, tags and rules of the earlier phases stay
\* committed
C30_ZeroWindowAborts ==
    /\ [][DayOffsetStep]_vars
    /\ [][ExpensesTableKept]_vars
    /\ []((args.days = 0 /\ args.expenses >= 1 /\ disk.exists /\ pc = "exit") =>
              /\ status = "ZeroDivisionError"
              /\ ExitStatus # 0
              /\ CatalogsCommitted
              /\ NeverPrinted("Generating salary schedule"))

\* a run with --days 0 and --expenses 1 on a new database has ended: the
\* catalogs are in the store and no expense is
C30_Witness ==
    /\ pc = "exit"
    /\ args.days = 0
    /\ args.expenses = 1
    /\ status = "ZeroDivisionError"
    /\ disk.accounts # <<>>
    /\ disk.tags # <<>>
    /\ disk.rules # <<>>
    /\ disk.expenses = <<>>
    /\ disk.trading_activities = <<>>

====
